---- MODULE Spec2Model ----
(***************************************************************************)
(* Token service, signup and streaming delivery of the digital-coaching    *)
(* backend (src/main.py, src/auth.py, src/bots/streaming.py).              *)
(*                                                                         *)
(* Storage is PostgreSQL through SQLAlchemy sessions created without an    *)
(* isolation level (src/db.py:25-32), i.e. READ COMMITTED: a query reads   *)
(* the committed rows, pending ORM changes reach the tables at commit, and *)
(* a commit applies all of its writes or none.  Handlers declared with     *)
(* "def" run on worker threads and interleave at their storage calls;      *)
(* handlers declared "async def" that never await (signup, login) run to   *)
(* completion on the event loop.  Strings that the code trims, lower-cases *)
(* or measures are sequences of one-character strings.                     *)
(*                                                                         *)
(* A streaming response is a generator resumed once per event: each        *)
(* resumption is a step, the handler code before the StreamingResponse is  *)
(* one step, and the request's session stays open until the generator      *)
(* ends or the client goes away.                                           *)
(***************************************************************************)
EXTENDS Integers, Sequences, FiniteSets, TLC

\* Python None / SQL NULL
None == -1

\* ---------------------------------------------------------------- bounds
NumThreads == 2      \* worker threads serving "def" handlers
MaxRefresh == 3      \* rows of refresh_tokens
MaxReset   == 2      \* rows of password_reset_tokens
MaxUsers   == 2      \* rows of chatbot_users
MaxDays    == 7      \* the clock of the refresh scenarios stops here
MaxHours   == 1      \* the clock of the reset scenarios stops here
NumStreams == 1      \* streaming responses open at a time
MaxConversations == 2 \* rows of conversations
MaxMessages == 4     \* rows of messages
MaxChunks  == 2      \* chunks one reply is streamed in
MaxListed  == 51     \* rows of conversations in the listing scenarios
MaxEarly   == 2      \* rows of the listing scenarios created while the clock moves
NumTurns   == 2      \* turns on ephemeral sessions running at a time
MaxSessions == 3     \* session dicts the process makes
MaxCacheHours == 3   \* the clock of the cache scenarios stops here
MaxHistory == 4      \* messages of a session's history in the short cache scenarios
MaxOver    == 4      \* messages past EPHEMERAL_MAX_MESSAGES in the long cache scenario
MaxStoredTurns == 32 \* turns a conversation has stored in the long-history scenario
MaxPace    == 2      \* turns to the hour in the long-history scenario

\* ------------------------------------------------------ program constants
REFRESH_TOKEN_TTL_DAYS == 7
RESET_TOKEN_TTL_HOURS  == 1
HoursPerDay            == 24
MinPasswordLen         == 8
MinFullNameLen         == 2
EPHEMERAL_TTL_SECONDS  == 3600
EPHEMERAL_MAX_MESSAGES == 60
SecondsPerHour         == 3600
SliceLen               == 20
ListLimit              == 50
HistoryLimit           == 60

Threads == 1..NumThreads

\* ------------------------------------------------------------ text helpers
RECURSIVE LStrip(_)
LStrip(s) == IF s # <<>> /\ Head(s) = " " THEN LStrip(Tail(s)) ELSE s

RECURSIVE RStrip(_)
RStrip(s) == IF s # <<>> /\ s[Len(s)] = " " THEN RStrip(SubSeq(s, 1, Len(s) - 1)) ELSE s

\* str.strip()
Strip(s) == RStrip(LStrip(s))

LowerLetters == <<"a", "b", "c", "d", "e", "f", "g", "h", "i", "j", "k", "l", "m">> \o
                <<"n", "o", "p", "q", "r", "s", "t", "u", "v", "w", "x", "y", "z">>

UpperLetters == <<"A", "B", "C", "D", "E", "F", "G", "H", "I", "J", "K", "L", "M">> \o
                <<"N", "O", "P", "Q", "R", "S", "T", "U", "V", "W", "X", "Y", "Z">>

DigitChars == <<"0", "1", "2", "3", "4", "5", "6", "7", "8", "9">>

IndexIn(seq, c) == CHOOSE i \in 1..Len(seq) : seq[i] = c

LowerSet == {LowerLetters[i] : i \in 1..Len(LowerLetters)}

UpperSet == {UpperLetters[i] : i \in 1..Len(UpperLetters)}

DigitSet == {DigitChars[i] : i \in 1..Len(DigitChars)}

IsLower(c) == c \in LowerSet

IsUpper(c) == c \in UpperSet

\* str.isalpha() of one character
IsAlpha(c) == IsLower(c) \/ IsUpper(c)

IsDigit(c) == c \in DigitSet

\* the class \w of the regular expressions: [a-zA-Z0-9_]
IsWordChar(c) == IsAlpha(c) \/ IsDigit(c) \/ c = "_"

ToLower == [c \in UpperSet |-> LowerLetters[IndexIn(UpperLetters, c)]]

ToUpper == [c \in LowerSet |-> UpperLetters[IndexIn(LowerLetters, c)]]

LowerChar(c) == IF IsUpper(c) THEN ToLower[c] ELSE c

UpperChar(c) == IF IsLower(c) THEN ToUpper[c] ELSE c

\* str.lower()
Lower(s) == [i \in 1..Len(s) |-> LowerChar(s[i])]

Contains(s, c) == \E i \in 1..Len(s) : s[i] = c

\* str.endswith(suffix)
EndsWith(s, suf) == /\ Len(s) >= Len(suf)
                    /\ SubSeq(s, Len(s) - Len(suf) + 1, Len(s)) = suf

\* email.split("@")[0]
RECURSIVE BeforeAt(_)
BeforeAt(s) == IF s = <<>> \/ Head(s) = "@" THEN <<>> ELSE <<Head(s)>> \o BeforeAt(Tail(s))

\* re.sub(r"[^a-zA-Z0-9_]+", "", s)
RECURSIVE KeepUsernameChars(_)
KeepUsernameChars(s) ==
    IF s = <<>> THEN <<>>
    ELSE (IF IsWordChar(Head(s)) THEN <<Head(s)>> ELSE <<>>) \o KeepUsernameChars(Tail(s))

\* normalize_username: strip, lower, drop everything but [a-zA-Z0-9_], default "user"
normalize_username(raw) ==
    LET base == KeepUsernameChars(Lower(Strip(raw)))
    IN  IF base = <<>> THEN <<"u", "s", "e", "r">> ELSE SubSeq(base, 1, IF Len(base) < 50 THEN Len(base) ELSE 50)

AvocarbonDomain == <<"@", "a", "v", "o", "c", "a", "r", "b", "o", "n", ".", "c", "o", "m">>

\* ----------------------------------------------------------- title helpers
NewChat == <<"N", "e", "w", " ", "c", "h", "a", "t">>

\* str.split(): the maximal runs of characters without a space
RECURSIVE SplitWs(_, _)
SplitWs(s, cur) ==
    IF s = <<>> THEN (IF cur = <<>> THEN <<>> ELSE <<cur>>)
    ELSE IF Head(s) = " "
    THEN (IF cur = <<>> THEN <<>> ELSE <<cur>>) \o SplitWs(Tail(s), <<>>)
    ELSE SplitWs(Tail(s), Append(cur, Head(s)))

\* " ".join(words)
RECURSIVE JoinSp(_)
JoinSp(ws) ==
    IF ws = <<>> THEN <<>>
    ELSE IF Len(ws) = 1 THEN ws[1]
    ELSE ws[1] \o <<" ">> \o JoinSp(Tail(ws))

\* " ".join((text or "").strip().split())
NormWs(text) == JoinSp(SplitWs(text, <<>>))

FirstN(seq, n) == SubSeq(seq, 1, IF Len(seq) < n THEN Len(seq) ELSE n)

\* str.capitalize()
Capitalize(s) ==
    [i \in 1..Len(s) |-> IF i = 1 THEN UpperChar(s[i]) ELSE LowerChar(s[i])]

Greetings ==
    {<<"h", "i">>, <<"h", "e", "l", "l", "o">>, <<"s", "a", "l", "u", "t">>,
     <<"h", "e", "y">>, <<"y", "o">>, <<"o", "k">>, <<"o", "k", "a", "y">>,
     <<"t", "e", "s", "t">>, <<"b", "o", "n", "j", "o", "u", "r">>}

\* a test that lets every text with a letter pass
is_meaningful_message_AnyText(text) == \E i \in 1..Len(text) : IsAlpha(text[i])

is_meaningful_message(text) ==
    LET t     == NormWs(text)
        words == SplitWs(t, <<>>)
        alpha_count == Cardinality({i \in 1..Len(t) : IsAlpha(t[i])})
    IN  /\ t # <<>>
        /\ Len(t) >= 12
        /\ Len(words) >= 2
        /\ alpha_count >= 6
        /\ ~(Len(words) = 1 /\ Lower(t) \in Greetings)

\* the maximal runs of \w characters
RECURSIVE WordTokens(_, _)
WordTokens(s, cur) ==
    IF s = <<>> THEN (IF cur = <<>> THEN <<>> ELSE <<cur>>)
    ELSE IF ~IsWordChar(Head(s))
    THEN (IF cur = <<>> THEN <<>> ELSE <<cur>>) \o WordTokens(Tail(s), <<>>)
    ELSE WordTokens(Tail(s), Append(cur, Head(s)))

\* re.findall(r'\b[a-z...]{3,}\b', text_lower): the \w runs made of three
\* or more lower-case letters
TitleWords(text_lower) ==
    SelectSeq(WordTokens(text_lower, <<>>),
              LAMBDA w : Len(w) >= 3 /\ \A i \in 1..Len(w) : IsLower(w[i]))

\* the stopwords of summarize_title written with unaccented letters
Stopwords ==
    {<<"a", "v", "e", "c">>, <<"d", "a", "n", "s">>, <<"p", "o", "u", "r">>,
     <<"m", "o", "n">>, <<"m", "a">>, <<"m", "e", "s">>, <<"t", "o", "n">>,
     <<"t", "a">>, <<"t", "e", "s">>, <<"s", "o", "n">>, <<"s", "a">>,
     <<"s", "e", "s">>, <<"u", "n">>, <<"u", "n", "e">>, <<"l", "e">>,
     <<"l", "a">>, <<"l", "e", "s">>, <<"d", "e", "s">>, <<"d", "u">>,
     <<"d", "e">>, <<"a", "u">>, <<"a", "u", "x">>, <<"s", "u", "r">>,
     <<"s", "o", "u", "s">>, <<"p", "a", "r">>, <<"e", "n", "t", "r", "e">>,
     <<"p", "e", "n", "d", "a", "n", "t">>, <<"d", "e", "p", "u", "i", "s">>,
     <<"c", "h", "e", "z">>, <<"v", "e", "r", "s">>, <<"j", "e">>,
     <<"t", "u">>, <<"i", "l">>, <<"e", "l", "l", "e">>,
     <<"n", "o", "u", "s">>, <<"v", "o", "u", "s">>, <<"i", "l", "s">>,
     <<"e", "l", "l", "e", "s">>, <<"c", "e">>, <<"c", "e", "t", "t", "e">>,
     <<"c", "e", "s">>, <<"e", "t">>, <<"o", "u">>, <<"m", "a", "i", "s">>,
     <<"d", "o", "n", "c">>, <<"c", "a", "r">>, <<"n", "i">>, <<"o", "r">>,
     <<"q", "u", "e">>, <<"q", "u", "i">>, <<"q", "u", "o", "i">>,
     <<"e", "s", "t">>, <<"s", "o", "n", "t">>, <<"s", "u", "i", "s">>,
     <<"e", "s">>, <<"s", "o", "m", "m", "e", "s">>, <<"a", "i">>,
     <<"a", "s">>, <<"a">>, <<"a", "v", "o", "n", "s">>,
     <<"a", "v", "e", "z">>, <<"o", "n", "t">>, <<"p", "e", "u">>,
     <<"p", "l", "u", "s">>, <<"m", "o", "i", "n", "s">>,
     <<"a", "u", "s", "s", "i">>, <<"a", "l", "o", "r", "s">>,
     <<"p", "u", "i", "s">>, <<"a", "i", "n", "s", "i">>}

summarize_title(text) ==
    LET t     == NormWs(text)
        words == TitleWords(Lower(t))
        meaningful_words == SelectSeq(words, LAMBDA w : w \notin Stopwords)
    IN  IF t = <<>> THEN NewChat
        ELSE IF Len(meaningful_words) < 2
        THEN (IF words = <<>> THEN NewChat ELSE Capitalize(JoinSp(FirstN(words, 4))))
        ELSE Capitalize(JoinSp(FirstN(meaningful_words, 4)))

make_title(first_user_message) ==
    LET t     == NormWs(first_user_message)
        title == summarize_title(t)
        words == SplitWs(title, <<>>)
    IN  IF ~is_meaningful_message(t) THEN NewChat
        ELSE IF Len(words) > 4 THEN JoinSp(FirstN(words, 4))
        ELSE title

\* str(n) for n >= 0
RECURSIVE IntToStr(_)
IntToStr(n) ==
    IF n < 10 THEN <<DigitChars[n + 1]>>
    ELSE IntToStr(n \div 10) \o <<DigitChars[(n % 10) + 1]>>

\* int(num) for a string of digits
RECURSIVE StrToInt(_)
StrToInt(num) ==
    IF num = <<>> THEN 0
    ELSE 10 * StrToInt(SubSeq(num, 1, Len(num) - 1)) + (IndexIn(DigitChars, num[Len(num)]) - 1)

\* str.isdigit()
IsDigits(num) == num # <<>> /\ \A i \in 1..Len(num) : IsDigit(num[i])

StartsWith(s, pre) == Len(s) >= Len(pre) /\ SubSeq(s, 1, Len(pre)) = pre

\* ------------------------------------------------------------ auth helpers
\* sha256(token ":" SECRET_KEY): one-way and collision free
hash_refresh_token(t) == <<"sha256", t, "SECRET_KEY">>

hash_reset_token(t) == <<"sha256", t, "SECRET_KEY">>

\* bcrypt digest of the password (the salt does not influence verification)
hash_password(p) == <<"bcrypt", p>>

verify_password(p, h) == h = <<"bcrypt", p>>

\* ------------------------------------------------------------------ state
VARIABLES
    now,             \* utcnow(), in hours
    users,           \* chatbot_users rows, id = index
    refresh_tokens,  \* refresh_tokens rows, id = index
    reset_tokens,    \* password_reset_tokens rows, id = index
    th,              \* per worker thread: the handler it is in and its locals
    ev,              \* the handler step taken last, with its inputs and response
    conversations,   \* conversations rows, id = index
    messages,        \* messages rows, id = index
    st,              \* per streaming response: its request, generator and events
    EPHEMERAL_SESSIONS, \* the process-wide dict: key -> entry (its session, updated_at)
    session_dicts,   \* the session dicts the process has made; a reference is an index
    et               \* per turn on an ephemeral session: its position and locals

authVars == <<now, users, refresh_tokens, reset_tokens, th, ev>>

chatVars == <<conversations, messages, st>>

cacheVars == <<EPHEMERAL_SESSIONS, session_dicts, et>>

vars == <<now, users, refresh_tokens, reset_tokens, th, ev, conversations, messages, st,
          EPHEMERAL_SESSIONS, session_dicts, et>>

Idle == [pc |-> "idle", rec |-> 0, at |-> 0, uid |-> 0, email |-> <<>>, pw |-> <<>>, marked |-> {}]

\* op/step: the handler and the part of it that ran; status/detail: the
\* response (status 0: the handler has not answered yet); email/tok: the
\* request's email, and its token, title or path; out: the id of the row the step added, the
\* body of a turn's response, or 0
Event(op, step, status, detail, email, tok, out) ==
    [op |-> op, step |-> step, status |-> status,
     detail |-> detail, email |-> email, tok |-> tok, out |-> out]

NoEvent == Event("none", "none", 0, "", <<>>, None, 0)

AuthInit ==
    /\ now = 0
    /\ users = <<>>
    /\ refresh_tokens = <<>>
    /\ reset_tokens = <<>>
    /\ th = [t \in Threads |-> Idle]
    /\ ev = NoEvent

\* The thread pool hands a request to an idle worker; workers are
\* interchangeable, so the request goes to the first idle one.
Dispatch(t) ==
    /\ th[t].pc = "idle"
    /\ \A u \in Threads : u < t => th[u].pc # "idle"

\* ------------------------------------------------------------------ clock
Tick(d, limit) ==
    /\ now + d <= limit
    /\ now' = now + d
    /\ ev' = Event("tick", "tick", 0, "", <<>>, None, 0)
    /\ UNCHANGED <<users, refresh_tokens, reset_tokens, th>>
    /\ UNCHANGED chatVars
    /\ UNCHANGED cacheVars

\* the lifetime of a refresh token passes
TickRefreshTtl == Tick(REFRESH_TOKEN_TTL_DAYS * HoursPerDay, MaxDays * HoursPerDay)

TickHour == Tick(1, MaxHours)

\* ------------------------------------------------------- chatbot_users
UserIdsByEmail(email) == {i \in 1..Len(users) : users[i].email = email}

\* query(ChatbotUser).filter(email == email).first()
FirstUserByEmail(email) ==
    IF UserIdsByEmail(email) = {} THEN 0
    ELSE CHOOSE i \in UserIdsByEmail(email) : \A j \in UserIdsByEmail(email) : i <= j

UsernameTaken(name) == \E i \in 1..Len(users) : users[i].username = name

\* unique_username: base, else base2, base3, ...
RECURSIVE FreeSuffix(_, _)
FreeSuffix(base, n) == IF UsernameTaken(base \o IntToStr(n)) THEN FreeSuffix(base, n + 1) ELSE n

unique_username(raw) ==
    LET base == normalize_username(raw)
    IN  IF ~UsernameTaken(base) THEN base ELSE base \o IntToStr(FreeSuffix(base, 2))

\* ------------------------------------------------------- refresh_tokens
RefreshIdsByHash(h) == {i \in 1..Len(refresh_tokens) : refresh_tokens[i].token_hash = h}

\* query(RefreshToken).filter(token_hash == h).first()
FirstRefreshByHash(h) ==
    IF RefreshIdsByHash(h) = {} THEN 0
    ELSE CHOOSE i \in RefreshIdsByHash(h) : \A j \in RefreshIdsByHash(h) : i <= j

\* generate_refresh_token(): a value no earlier call returned
generate_refresh_token == Len(refresh_tokens) + 1

\* The row create_refresh_token_record / refresh_token adds.  parent is the
\* id of the row whose rotation issued it (0: issued by signup or login).
NewRefreshRow(user_id, email, token, at, parent) ==
    [user_id    |-> user_id,
     email      |-> email,
     token_hash |-> hash_refresh_token(token),
     expires_at |-> at + REFRESH_TOKEN_TTL_DAYS * HoursPerDay,
     revoked_at |-> None,
     parent     |-> parent,
     rotated_by |-> {}]

\* create_refresh_token_record: add the row and commit
create_refresh_token_record(email, user_id) ==
    refresh_tokens' = Append(refresh_tokens,
                             NewRefreshRow(user_id, email, generate_refresh_token, now, 0))

\* ---------------------------------------------------------------- signup
SignupInvalid(full_name, email, password, confirm) ==
    IF Len(full_name) < MinFullNameLen THEN "full_name too short"
    ELSE IF ~Contains(email, "@") THEN "invalid email"
    ELSE IF ~EndsWith(email, AvocarbonDomain) THEN "email must be @avocarbon.com"
    ELSE IF Len(password) < MinPasswordLen THEN "password too short"
    ELSE IF password # confirm THEN "password_mismatch"
    ELSE ""

NewUser(full_name, email, password) ==
    [email         |-> email,
     username      |-> unique_username(IF BeforeAt(email) # <<>> THEN BeforeAt(email) ELSE full_name),
     password_hash |-> hash_password(password),
     full_name     |-> full_name,
     last_login    |-> None]

\* SignupConflict without the lookup of an existing row
SignupConflict_Never(email) == FALSE

\* exists = query(ChatbotUser.id).filter(email == email).first()
SignupConflict(email) == FirstUserByEmail(email) # 0

\* POST /api/auth/signup.  fault: "none", "user_commit" (chat_db.commit
\* raises) or "refresh_commit" (create_refresh_token_record raises); the
\* event's step names the fault that ended the request.
signup(raw_name, raw_email, password, confirm, fault) ==
    LET full_name == Strip(raw_name)
        email     == Lower(Strip(raw_email))
        invalid   == SignupInvalid(full_name, email, password, confirm)
    IN  /\ UNCHANGED <<cacheVars, now, reset_tokens, th>>
        /\ UNCHANGED chatVars
        /\ IF invalid # ""
           THEN /\ ev' = Event("signup", "done", 400, invalid, email, None, 0)
                /\ UNCHANGED <<users, refresh_tokens>>
           ELSE IF SignupConflict(email)
           THEN /\ ev' = Event("signup", "done", 409, "email already exists", email, None, 0)
                /\ UNCHANGED <<users, refresh_tokens>>
           ELSE IF fault = "user_commit"
           THEN /\ ev' = Event("signup", "user_commit_failed", 500, "server_error", email, None, 0)
                /\ UNCHANGED <<users, refresh_tokens>>
           ELSE /\ Len(users) < MaxUsers
                /\ Len(refresh_tokens) < MaxRefresh
                /\ users' = Append(users, NewUser(full_name, email, password))
                /\ IF fault = "refresh_commit"
                   THEN /\ ev' = Event("signup", "refresh_commit_failed", 500, "server_error",
                                       email, None, 0)
                        /\ UNCHANGED refresh_tokens
                   ELSE /\ create_refresh_token_record(email, Len(users) + 1)
                        /\ ev' = Event("signup", "done", 200, "ok", email, None, generate_refresh_token)

\* ----------------------------------------------------------------- login
\* POST /api/auth/login.  fault as for signup.
login(raw_email, password, fault) ==
    LET email == Lower(Strip(raw_email))
        uid   == FirstUserByEmail(email)
    IN  /\ UNCHANGED <<cacheVars, now, reset_tokens, th>>
        /\ UNCHANGED chatVars
        /\ IF uid = 0 \/ ~verify_password(password, users[uid].password_hash)
           THEN /\ ev' = Event("login", "done", 401, "invalid credentials", email, None, 0)
                /\ UNCHANGED <<users, refresh_tokens>>
           ELSE IF fault = "user_commit"
           THEN /\ ev' = Event("login", "user_commit_failed", 500, "server_error", email, None, 0)
                /\ UNCHANGED <<users, refresh_tokens>>
           ELSE /\ Len(refresh_tokens) < MaxRefresh
                /\ users' = [users EXCEPT ![uid].last_login = now]
                /\ IF fault = "refresh_commit"
                   THEN /\ ev' = Event("login", "refresh_commit_failed", 500, "server_error",
                                       email, None, 0)
                        /\ UNCHANGED refresh_tokens
                   ELSE /\ create_refresh_token_record(email, uid)
                        /\ ev' = Event("login", "done", 200, "ok", email, None, generate_refresh_token)

\* --------------------------------------------------------------- refresh
\* RefreshRejected without the test of revoked_at
RefreshRejected_IgnoresRevoked(rec, at) ==
    \/ rec = 0
    \/ refresh_tokens[rec].expires_at <= at

\* RefreshRejected with expires_at < now in place of expires_at <= now
RefreshRejected_ExpiryStrict(rec, at) ==
    \/ rec = 0
    \/ refresh_tokens[rec].revoked_at # None
    \/ refresh_tokens[rec].expires_at < at

\* The condition of src/main.py:712 on the row found for the presented token
RefreshRejected(rec, at) ==
    \/ rec = 0
    \/ refresh_tokens[rec].revoked_at # None
    \/ refresh_tokens[rec].expires_at <= at

\* POST /api/auth/refresh, up to the check of the presented token.
\* token = None: no refresh cookie.
refresh_lookup(t, token) ==
    LET rec == FirstRefreshByHash(hash_refresh_token(token))
    IN  /\ Dispatch(t)
        /\ UNCHANGED <<cacheVars, now, users, refresh_tokens, reset_tokens>>
        /\ UNCHANGED chatVars
        /\ IF token = None
           THEN /\ ev' = Event("refresh", "lookup", 401, "refresh_token_missing", <<>>, token, 0)
                /\ UNCHANGED th
           ELSE IF RefreshRejected(rec, now)
           THEN /\ ev' = Event("refresh", "lookup", 401, "invalid_refresh_token", <<>>, token, 0)
                /\ UNCHANGED th
           ELSE /\ th' = [th EXCEPT ![t] = [Idle EXCEPT !.pc = "refresh_rotate", !.rec = rec, !.at = now]]
                /\ ev' = Event("refresh", "lookup", 0, "", <<>>, token, 0)

\* RotationWrites storing the revocation without the successor row
RotationWrites_RevokeOnly(rec, at, new_refresh) ==
    [refresh_tokens EXCEPT ![rec].revoked_at = at,
                           ![rec].rotated_by = @ \cup {new_refresh}]

\* The writes of one rotation (record.revoked_at = now; db.add(...)), which
\* db.commit() applies together.  rotated_by notes, on the presented row,
\* the successor ids of the rotations that marked it revoked.
RotationWrites(rec, at, new_refresh) ==
    Append([refresh_tokens EXCEPT ![rec].revoked_at = at,
                                  ![rec].rotated_by = @ \cup {new_refresh}],
           NewRefreshRow(refresh_tokens[rec].user_id, refresh_tokens[rec].email,
                         new_refresh, at, rec))

\* POST /api/auth/refresh, rotation and commit
refresh_rotate(t) ==
    /\ th[t].pc = "refresh_rotate"
    /\ Len(refresh_tokens) < MaxRefresh
    /\ refresh_tokens' = RotationWrites(th[t].rec, th[t].at, generate_refresh_token)
    /\ th' = [th EXCEPT ![t] = Idle]
    /\ ev' = Event("refresh", "commit", 200, "ok", <<>>, th[t].rec, generate_refresh_token)
    /\ UNCHANGED <<cacheVars, now, users, reset_tokens>>
    /\ UNCHANGED chatVars

\* db.commit() raises: nothing of the rotation is stored, the request ends
\* with an unhandled error
refresh_rotate_fail(t) ==
    /\ th[t].pc = "refresh_rotate"
    /\ th' = [th EXCEPT ![t] = Idle]
    /\ ev' = Event("refresh", "commit", 500, "server_error", <<>>, th[t].rec, 0)
    /\ UNCHANGED <<cacheVars, now, users, refresh_tokens, reset_tokens>>
    /\ UNCHANGED chatVars

\* ---------------------------------------------------------------- logout
\* query(RefreshToken).filter(token_hash == h, revoked_at == None).update(...)
RevokeByHash(h, at) ==
    [i \in 1..Len(refresh_tokens) |->
        IF refresh_tokens[i].token_hash = h /\ refresh_tokens[i].revoked_at = None
        THEN [refresh_tokens[i] EXCEPT !.revoked_at = at]
        ELSE refresh_tokens[i]]

\* POST /auth/logout.  fault = TRUE: the update or its commit raises; the
\* handler rolls back and still answers ok.
logout(t, token, fault) ==
    /\ Dispatch(t)
    /\ refresh_tokens' = IF token # None /\ ~fault
                         THEN RevokeByHash(hash_refresh_token(token), now)
                         ELSE refresh_tokens
    /\ ev' = Event("logout", IF fault /\ token # None THEN "rollback" ELSE "done",
                   200, "ok", <<>>, token, 0)
    /\ UNCHANGED <<cacheVars, now, users, reset_tokens, th>>
    /\ UNCHANGED chatVars

\* ------------------------------------------------------- forgot-password
\* query(PasswordResetToken).filter(email == email, used_at == None): the
\* rows the update statement of src/main.py:747-750 finds
UnusedResetIds(email) ==
    {i \in 1..Len(reset_tokens) : /\ reset_tokens[i].email = email
                                   /\ reset_tokens[i].used_at = None}

\* secrets.token_urlsafe(32): a value no earlier call returned
generate_reset_token == Len(reset_tokens) + 1

\* uses counts the reset requests answered ok after consuming the row
NewResetRow(user_id, email, token, at) ==
    [user_id    |-> user_id,
     email      |-> email,
     token_hash |-> hash_reset_token(token),
     expires_at |-> at + RESET_TOKEN_TTL_HOURS,
     used_at    |-> None,
     uses       |-> 0]

\* POST /api/auth/forgot-password up to the update statement, which runs
\* in the request's open transaction: it marks the unused rows of the
\* email that are committed when it runs.
forgot_lookup(t, raw_email) ==
    LET email == Lower(Strip(raw_email))
        uid   == FirstUserByEmail(email)
    IN  /\ Dispatch(t)
        /\ UNCHANGED <<cacheVars, now, users, refresh_tokens, reset_tokens>>
        /\ UNCHANGED chatVars
        /\ IF email = <<>>
           THEN /\ ev' = Event("forgot", "lookup", 400, "Email is required", email, None, 0)
                /\ UNCHANGED th
           ELSE IF ~Contains(email, "@")
           THEN /\ ev' = Event("forgot", "lookup", 400, "Invalid email", email, None, 0)
                /\ UNCHANGED th
           ELSE IF uid = 0
           THEN /\ ev' = Event("forgot", "lookup", 404, "User does not exist", email, None, 0)
                /\ UNCHANGED th
           ELSE /\ th' = [th EXCEPT ![t] = [Idle EXCEPT !.pc = "forgot_commit", !.uid = uid,
                                                        !.at = now, !.email = email,
                                                        !.marked = UnusedResetIds(email)]]
                /\ ev' = Event("forgot", "lookup", 0, "", email, None, 0)

\* What db.commit() of forgot_password stores: used_at on the rows its
\* update statement found (a row another request consumed meanwhile keeps
\* that request's used_at), and the new row.
ForgotWrites(marked, uid, email, at) ==
    Append([i \in 1..Len(reset_tokens) |->
                IF i \in marked /\ reset_tokens[i].used_at = None
                THEN [reset_tokens[i] EXCEPT !.used_at = at]
                ELSE reset_tokens[i]],
           NewResetRow(uid, email, generate_reset_token, at))

\* POST /api/auth/forgot-password from db.commit() on.  outcome: "ok",
\* "commit_fails" (rolled back, 500) or "send_fails" (send_reset_email
\* raises after the commit, 500).
forgot_commit(t, outcome) ==
    /\ th[t].pc = "forgot_commit"
    /\ th' = [th EXCEPT ![t] = Idle]
    /\ UNCHANGED <<cacheVars, now, users, refresh_tokens>>
    /\ UNCHANGED chatVars
    /\ IF outcome = "commit_fails"
       THEN /\ ev' = Event("forgot", "commit", 500, "server_error", th[t].email, None, 0)
            /\ UNCHANGED reset_tokens
       ELSE /\ Len(reset_tokens) < MaxReset
            /\ reset_tokens' = ForgotWrites(th[t].marked, th[t].uid, th[t].email, th[t].at)
            /\ ev' = IF outcome = "send_fails"
                     THEN Event("forgot", "commit", 500, "Failed to send reset email",
                                th[t].email, None, generate_reset_token)
                     ELSE Event("forgot", "commit", 200, "ok",
                                th[t].email, None, generate_reset_token)

\* -------------------------------------------------------- reset-password
ResetIdsUsable(h, at) ==
    {i \in 1..Len(reset_tokens) : /\ reset_tokens[i].token_hash = h
                                   /\ reset_tokens[i].used_at = None
                                   /\ reset_tokens[i].expires_at > at}

\* query(PasswordResetToken).filter(token_hash == h, used_at == None,
\* expires_at > now).first()
FirstUsableReset(h, at) ==
    IF ResetIdsUsable(h, at) = {} THEN 0
    ELSE CHOOSE i \in ResetIdsUsable(h, at) : \A j \in ResetIdsUsable(h, at) : i <= j

\* POST /api/auth/reset-password up to the checks of the token and the
\* user.  token = None: empty token; raw_email = <<>>: no email given.
reset_lookup(t, token, password, confirm, raw_email) ==
    LET email == Lower(Strip(raw_email))
        rec   == FirstUsableReset(hash_reset_token(token), now)
        uid   == IF rec = 0 THEN 0 ELSE reset_tokens[rec].user_id
        reject(status, detail) ==
            /\ ev' = Event("reset", "lookup", status, detail, email, token, 0)
            /\ UNCHANGED th
    IN  /\ Dispatch(t)
        /\ UNCHANGED <<cacheVars, now, users, refresh_tokens, reset_tokens>>
        /\ UNCHANGED chatVars
        /\ IF token = None THEN reject(400, "token required")
           ELSE IF Len(password) < MinPasswordLen THEN reject(400, "password too short")
           ELSE IF password # confirm THEN reject(400, "password_mismatch")
           ELSE IF rec = 0 THEN reject(400, "invalid_or_expired_token")
           ELSE IF uid \notin 1..Len(users) THEN reject(404, "user_not_found")
           ELSE IF email # <<>> /\ Lower(users[uid].email) # email THEN reject(400, "email_mismatch")
           ELSE /\ th' = [th EXCEPT ![t] = [Idle EXCEPT !.pc = "reset_commit_user", !.rec = rec,
                                                        !.uid = uid, !.at = now, !.pw = password]]
                /\ ev' = Event("reset", "lookup", 0, "", email, token, 0)

\* user.password_hash = hash_password(password); chat_db.commit().
\* fault = TRUE: the commit raises, both sessions roll back, 500.
reset_commit_user(t, fault) ==
    /\ th[t].pc = "reset_commit_user"
    /\ UNCHANGED <<cacheVars, now, refresh_tokens, reset_tokens>>
    /\ UNCHANGED chatVars
    /\ IF fault
       THEN /\ th' = [th EXCEPT ![t] = Idle]
            /\ ev' = Event("reset", "commit_user", 500, "server_error", <<>>, th[t].rec, 0)
            /\ UNCHANGED users
       ELSE /\ users' = [users EXCEPT ![th[t].uid].password_hash = hash_password(th[t].pw)]
            /\ th' = [th EXCEPT ![t].pc = "reset_commit_token"]
            /\ ev' = Event("reset", "commit_user", 0, "", <<>>, th[t].rec, 0)

\* reset_commit_token revoking the refresh tokens of the user as well
reset_commit_token_RevokesSessions(t, fault) ==
    /\ th[t].pc = "reset_commit_token"
    /\ th' = [th EXCEPT ![t] = Idle]
    /\ UNCHANGED <<cacheVars, now, users>>
    /\ UNCHANGED chatVars
    /\ IF fault
       THEN /\ ev' = Event("reset", "commit_token", 500, "server_error", <<>>, th[t].rec, 0)
            /\ UNCHANGED <<reset_tokens, refresh_tokens>>
       ELSE /\ reset_tokens' = [reset_tokens EXCEPT ![th[t].rec].used_at = th[t].at,
                                                     ![th[t].rec].uses = @ + 1]
            /\ refresh_tokens' =
                  [i \in 1..Len(refresh_tokens) |->
                      IF /\ refresh_tokens[i].user_id = th[t].uid
                         /\ refresh_tokens[i].revoked_at = None
                      THEN [refresh_tokens[i] EXCEPT !.revoked_at = th[t].at]
                      ELSE refresh_tokens[i]]
            /\ ev' = Event("reset", "commit_token", 200, "ok", <<>>, th[t].rec, 0)

\* record.used_at = now; db.commit().  fault = TRUE: the commit raises
\* after the password was stored, 500.
reset_commit_token(t, fault) ==
    /\ th[t].pc = "reset_commit_token"
    /\ th' = [th EXCEPT ![t] = Idle]
    /\ UNCHANGED <<cacheVars, now, users, refresh_tokens>>
    /\ UNCHANGED chatVars
    /\ IF fault
       THEN /\ ev' = Event("reset", "commit_token", 500, "server_error", <<>>, th[t].rec, 0)
            /\ UNCHANGED reset_tokens
       ELSE /\ reset_tokens' = [reset_tokens EXCEPT ![th[t].rec].used_at = th[t].at,
                                                     ![th[t].rec].uses = @ + 1]
            /\ ev' = Event("reset", "commit_token", 200, "ok", <<>>, th[t].rec, 0)

\* ------------------------------------------------------------------- bots
\* the ids registered in src/bots/__init__.py
BOTS == {"personal", "formalization", "training", "product", "email"}

\* BOTS[bot_id].get("runner_stream"): every registered bot has one
HasRunnerStream(bot_id) == bot_id \in BOTS

NO_PERSIST_BOT_IDS == {"widget"}

is_ephemeral_bot(bot_id) == bot_id \in NO_PERSIST_BOT_IDS

\* the text stream_chat yields when the model call raises
ApologyText ==
    <<"I", " ", "a", "p", "o", "l", "o", "g", "i", "z", "e", " ", "f", "o",
      "r", " ", "t", "h", "e", " ", "t", "e", "c", "h", "n", "i", "c", "a",
      "l", " ", "i", "s", "s", "u", "e", ".", " ", "P", "l", "e", "a", "s",
      "e", " ", "t", "r", "y", " ", "a", "g", "a", "i", "n", " ", "o", "r",
      " ", "c", "o", "n", "t", "a", "c", "t", " ", "s", "u", "p", "p", "o",
      "r", "t", ".">>

\* ---------------------------------------------------------- conversations
Streams == 1..NumStreams

NoStream ==
    [pc |-> "idle", kind |-> "none", email |-> <<>>, bot_id |-> "", conv |-> 0,
     title |-> <<>>, uid |-> 0, msg |-> 0, message |-> <<>>, at |-> 0,
     deleted |-> {}, reply |-> <<>>, parts |-> <<>>, events |-> <<>>]

ChatInit ==
    /\ conversations = <<>>
    /\ messages = <<>>
    /\ st = [s \in Streams |-> NoStream]

\* ------------------------------------------------ ephemeral session cache
Turns == 1..NumTurns

NoTurn ==
    [pc |-> "idle", email |-> <<>>, key |-> <<>>, session |-> 0, message |-> <<>>, at |-> 0]

CacheInit ==
    /\ EPHEMERAL_SESSIONS = <<>>
    /\ session_dicts = <<>>
    /\ et = [t \in Turns |-> NoTurn]

\* f"{bot_id}:{email or 'anonymous'}"
EphemeralKey(email, bot_id) ==
    <<bot_id, ":">> \o (IF email = <<>> THEN <<"anonymous">> ELSE email)

\* (now - entry["updated_at"]).total_seconds()
EntryAge(key) == (now - EPHEMERAL_SESSIONS[key].updated_at) * SecondsPerHour

\* an entry that expires when its age reaches the TTL
LiveEntry_AtTtl(key) ==
    /\ key \in DOMAIN EPHEMERAL_SESSIONS
    /\ EntryAge(key) < EPHEMERAL_TTL_SECONDS

\* an entry that is never found
LiveEntry_Never(key) == FALSE

\* the entry get_ephemeral_session keeps: the key has one and its age is
\* not over the TTL
LiveEntry(key) ==
    /\ key \in DOMAIN EPHEMERAL_SESSIONS
    /\ ~(EntryAge(key) > EPHEMERAL_TTL_SECONDS)

\* history[-n:]
LastN(seq, n) == IF Len(seq) <= n THEN seq ELSE SubSeq(seq, Len(seq) - n + 1, Len(seq))

\* the session dict of a new entry
NewSession(email, bot_mode) ==
    [history |-> <<>>, ui_lang |-> None, stage |-> "idle",
     bot_mode |-> bot_mode, user_email |-> email]

\* get_ephemeral_session: the dict and the session dicts as the call leaves
\* them, and the reference it returns.  A live entry is refreshed in place;
\* otherwise a new entry with a new session dict takes the key, and the old
\* session dict stays with whoever still holds it.  The history is cut to
\* its last EPHEMERAL_MAX_MESSAGES messages.
get_ephemeral_session(email, bot_id, bot_mode) ==
    LET key     == EphemeralKey(email, bot_id)
        live    == LiveEntry(key)
        ref     == IF live THEN EPHEMERAL_SESSIONS[key].session ELSE Len(session_dicts) + 1
        made    == IF live
                   THEN [session_dicts EXCEPT ![ref].bot_mode = bot_mode,
                                              ![ref].user_email = email]
                   ELSE Append(session_dicts, NewSession(email, bot_mode))
        history == made[ref].history
        entry   == [session |-> ref, updated_at |-> now]
    IN  [EPHEMERAL_SESSIONS |->
            [k \in DOMAIN EPHEMERAL_SESSIONS \cup {key} |->
                IF k = key THEN entry ELSE EPHEMERAL_SESSIONS[k]],
         session_dicts |->
            IF Len(history) > EPHEMERAL_MAX_MESSAGES
            THEN [made EXCEPT ![ref].history = LastN(history, EPHEMERAL_MAX_MESSAGES)]
            ELSE made,
         session |-> ref]

\* `sub in s`
HasSubstring(s, sub) ==
    \E i \in 1..(Len(s) - Len(sub) + 1) : SubSeq(s, i, i + Len(sub) - 1) = sub

DescribeTheIssue ==
    <<"d", "e", "s", "c", "r", "i", "b", "e", " ", "t", "h", "e", " ",
      "i", "s", "s", "u", "e">>

DecrivezLeProbleme ==
    <<"d", "é", "c", "r", "i", "v", "e", "z", " ", "l", "e", " ",
      "p", "r", "o", "b", "l", "è", "m", "e">>

\* the branch `if is_ephemeral_bot(bot_id)` of chat_api and chat_api_stream,
\* from its first statement: session = get_ephemeral_session(...).  Both
\* handlers are coroutines and the call awaits nothing, so it is one step.
\* (The handlers enter the branch only for a bot id that BOTS holds.)
ephemeral_turn(t, email, bot_id, bot_mode, raw_message) ==
    LET got == get_ephemeral_session(email, bot_id, bot_mode)
    IN  /\ et[t].pc = "idle"
        /\ \A u \in Turns : u < t => et[u].pc # "idle"
        /\ is_ephemeral_bot(bot_id)
        /\ Len(got.session_dicts) <= MaxSessions
        /\ EPHEMERAL_SESSIONS' = got.EPHEMERAL_SESSIONS
        /\ session_dicts' = got.session_dicts
        /\ et' = [et EXCEPT ![t] = [pc |-> "run", email |-> email,
                                    key |-> EphemeralKey(email, bot_id),
                                    session |-> got.session,
                                    message |-> Strip(raw_message), at |-> now]]
        /\ ev' = Event("ephemeral", "session", 0, "", email, bot_id, got.session)
        /\ UNCHANGED <<now, users, refresh_tokens, reset_tokens, th, chatVars>>

\* widget.run up to the model call: the user message joins the history of
\* the session the turn holds; a session waiting for the details of a
\* support request sends them and the turn is over.
widget_run(t) ==
    LET ref     == et[t].session
        session == session_dicts[ref]
        waiting == session.stage = "support_waiting_details"
    IN  /\ et[t].pc = "run"
        /\ session_dicts' =
              [session_dicts EXCEPT
                  ![ref].history = Append(@, [role |-> "user", content |-> et[t].message]),
                  ![ref].stage = IF waiting THEN "idle" ELSE @]
        /\ et' = [et EXCEPT ![t].pc = IF waiting THEN "idle" ELSE "llm"]
        /\ ev' = Event("ephemeral", IF waiting THEN "done" ELSE "run",
                       IF waiting THEN 200 ELSE 0, "", et[t].email, None, ref)
        /\ UNCHANGED <<now, users, refresh_tokens, reset_tokens, th, chatVars, EPHEMERAL_SESSIONS>>

\* widget.run from the model call on: the stripped reply joins the history
\* and may move the session to wait for details; when the call raises,
\* nothing joins it and the turn answers with a fixed text.
widget_reply(t, reply, llm_fails) ==
    LET ref  == et[t].session
        text == Strip(reply)
    IN  /\ et[t].pc = "llm"
        /\ session_dicts' =
              IF llm_fails THEN session_dicts
              ELSE [session_dicts EXCEPT
                       ![ref].history = Append(@, [role |-> "assistant", content |-> text]),
                       ![ref].stage = IF \/ HasSubstring(Lower(text), DescribeTheIssue)
                                         \/ HasSubstring(Lower(text), DecrivezLeProbleme)
                                      THEN "support_waiting_details" ELSE @]
        /\ et' = [et EXCEPT ![t].pc = "idle"]
        /\ ev' = Event("ephemeral", "done", 200,
                       IF llm_fails THEN "model call failed" ELSE "", et[t].email, None, ref)
        /\ UNCHANGED <<now, users, refresh_tokens, reset_tokens, th, chatVars, EPHEMERAL_SESSIONS>>

Init == AuthInit /\ ChatInit /\ CacheInit

\* No coroutine handler is inside a runner call: the event loop is free to
\* start another coroutine handler.
EventLoopFree == \A u \in Streams : st[u].pc # "call"

\* A new response takes the first slot that holds no running generator.
StreamSlot(s) ==
    /\ st[s].pc \in {"idle", "closed", "dropped"}
    /\ \A u \in Streams : u < s => st[u].pc \notin {"idle", "closed", "dropped"}

ConversationIds == 1..Len(conversations)

MessageIds == {i \in 1..Len(messages) : ~messages[i].removed}

\* ------------------------------------------- the chat_id of a turn's body
\* payload.get("chat_id") as json.loads hands it over: null, an integer, a
\* string, or a float (finite with its whole part, nan, or inf, which
\* json.loads gives for Infinity and for a number such as 1e400)
JsonNull == [type |-> "null", num |-> 0, text |-> <<>>]

JsonInt(n) == [type |-> "int", num |-> n, text |-> <<>>]

JsonStr(text) == [type |-> "str", num |-> 0, text |-> text]

JsonFloat(whole) == [type |-> "float", num |-> whole, text |-> <<>>]

JsonNaN == [type |-> "float", num |-> 0, text |-> <<"n", "a", "n">>]

JsonInf == [type |-> "float", num |-> 0, text |-> <<"i", "n", "f">>]

\* the body of a request that names chat c, or none
JsonId(c) == IF c = None THEN JsonNull ELSE JsonInt(c)

DigitValue(c) == IndexIn(DigitChars, c) - 1

RECURSIVE DigitsValue(_)
DigitsValue(text) ==
    IF text = <<>> THEN 0
    ELSE 10 * DigitsValue(SubSeq(text, 1, Len(text) - 1)) + DigitValue(text[Len(text)])

\* payload_id = int(chat_id): the integer itself, a float's whole part, a
\* string of digits with an optional sign between optional blanks;
\* ValueError for any other string and for nan, OverflowError for inf
payload_id(chat_id) ==
    LET text   == Strip(chat_id.text)
        signed == text # <<>> /\ text[1] \in {"+", "-"}
        body   == IF signed THEN Tail(text) ELSE text
        value  == IF signed /\ text[1] = "-" THEN 0 - DigitsValue(body) ELSE DigitsValue(body)
    IN  CASE chat_id.type = "int" -> [raises |-> "", id |-> chat_id.num]
          [] chat_id.type = "float" /\ chat_id.text = <<>> -> [raises |-> "", id |-> chat_id.num]
          [] chat_id.type = "float" /\ chat_id = JsonInf -> [raises |-> "OverflowError", id |-> 0]
          [] chat_id.type = "float" /\ chat_id # JsonInf -> [raises |-> "ValueError", id |-> 0]
          [] chat_id.type = "str" /\ body # <<>> /\ (\A i \in 1..Len(body) : IsDigit(body[i])) ->
                [raises |-> "", id |-> value]
          [] OTHER -> [raises |-> "ValueError", id |-> 0]

\* a lookup without the is_deleted filter
FindConversation_IgnoresDeleted(chat_id, email, bot_id) ==
    IF /\ chat_id \in ConversationIds
       /\ conversations[chat_id].email = email
       /\ conversations[chat_id].bot_id = bot_id
    THEN chat_id ELSE 0

\* query(Conversation).filter(id == chat_id, email == email, bot_id ==
\* bot_id, is_deleted == False).first(); 0: no such row
FindConversation(chat_id, email, bot_id) ==
    IF /\ chat_id \in ConversationIds
       /\ conversations[chat_id].email = email
       /\ conversations[chat_id].bot_id = bot_id
       /\ ~conversations[chat_id].is_deleted
    THEN chat_id ELSE 0

\* get_chatbot_user_id
get_chatbot_user_id(email) ==
    IF email = <<>> \/ FirstUserByEmail(email) = 0 THEN None ELSE FirstUserByEmail(email)

\* the row create_conversation adds and commits
NewConversation(email, bot_id, user_id, at) ==
    [user_id    |-> user_id,
     email      |-> email,
     bot_id     |-> bot_id,
     title      |-> NewChat,
     stage      |-> "select_lang",
     ui_lang    |-> None,
     created_at |-> at,
     updated_at |-> at,
     is_deleted |-> FALSE]

NewMessage(conversation_id, role, content, at) ==
    [conversation_id |-> conversation_id,
     role            |-> role,
     content         |-> content,
     created_at      |-> at,
     is_edited       |-> FALSE,
     edited_at       |-> None,
     removed         |-> FALSE]

\* the titles unique_title reads: the caller's conversations of the bot
\* that are not deleted, without the excluded one
ExistingTitles(email, bot_id, exclude_id) ==
    {conversations[i].title :
        i \in {j \in ConversationIds : /\ conversations[j].email = email
                                       /\ conversations[j].bot_id = bot_id
                                       /\ ~conversations[j].is_deleted
                                       /\ j # exclude_id}} \ {<<>>}

RECURSIVE FirstUnused(_, _)
FirstUnused(used_nums, n) == IF n \in used_nums THEN FirstUnused(used_nums, n + 1) ELSE n

unique_title(email, bot_id, raw_base, exclude_id) ==
    LET base     == IF Strip(raw_base) = <<>> THEN NewChat ELSE Strip(raw_base)
        existing == ExistingTitles(email, bot_id, exclude_id)
        prefix   == base \o <<" ", "(">>
        num(t)   == SubSeq(t, Len(prefix) + 1, Len(t) - 1)
        used_nums == {StrToInt(num(t)) :
                         t \in {u \in existing : /\ StartsWith(u, prefix)
                                                 /\ EndsWith(u, <<")">>)
                                                 /\ IsDigits(num(u))}}
    IN  IF base \notin existing THEN base
        ELSE base \o <<" ", "(">> \o IntToStr(FirstUnused(used_nums, 2)) \o <<")">>

\* Join keeping the first part only
Join_FirstPart(parts) == IF parts = <<>> THEN <<>> ELSE Head(parts)

\* "".join(assistant_parts)
RECURSIVE Join(_)
Join(parts) == IF parts = <<>> THEN <<>> ELSE Head(parts) \o Join(Tail(parts))

\* sse_event(data, event)
sse_event(data, event) == [event |-> event, data |-> data]

\* ------------------------------------------------------------- streaming
\* the rows the open streaming responses will add at their commit
RowsToCome ==
    Cardinality({u \in Streams : st[u].pc \in {"start", "run", "drained"} /\ st[u].kind = "turn"}) * 2
    + Cardinality({u \in Streams : st[u].pc \in {"start", "run", "drained"} /\ st[u].kind = "edit"})

\* POST /api/chat/stream up to the StreamingResponse: the checks, the
\* conversation (looked up, or created and committed), the user message
\* added to the session.  email = <<>>: no valid access token; chat_id =
\* None: none given; fault = TRUE: create_conversation raises.
chat_api_stream(s, email, bot_id, raw_message, chat_id, fault) ==
    LET message == Strip(raw_message)
        pid     == payload_id(chat_id)
        found   == IF chat_id = JsonNull \/ pid.raises # "" THEN 0
                   ELSE FindConversation(pid.id, email, bot_id)
        user_id == get_chatbot_user_id(email)
        conv    == IF found = 0 THEN Len(conversations) + 1 ELSE found
        refuse(status, detail) ==
            /\ ev' = Event("chat_stream", "done", status, detail, email, None, 0)
            /\ UNCHANGED <<conversations, st>>
    IN  /\ StreamSlot(s)
        /\ EventLoopFree
        /\ UNCHANGED <<cacheVars, now, users, refresh_tokens, reset_tokens, th, messages>>
        /\ IF email = <<>> THEN refuse(401, "Not authenticated")
           ELSE IF bot_id = "" \/ message = <<>> THEN refuse(400, "bot_id and message required")
           ELSE IF bot_id \notin BOTS THEN refuse(400, "Unknown bot_id")
           ELSE IF is_ephemeral_bot(bot_id)
           THEN /\ st' = [st EXCEPT ![s] = [NoStream EXCEPT !.pc = "start", !.kind = "ephemeral",
                                                            !.email = email, !.bot_id = bot_id,
                                                            !.message = message, !.at = now]]
                /\ ev' = Event("chat_stream", "done", 200, "stream", email, None, 0)
                /\ UNCHANGED conversations
           ELSE IF chat_id # JsonNull /\ pid.raises = "OverflowError" THEN refuse(500, "server_error")
           ELSE IF found = 0 /\ fault THEN refuse(500, "server_error")
           ELSE /\ found = 0 => Len(conversations) < MaxConversations
                /\ Len(messages) + RowsToCome + 2 <= MaxMessages
                /\ conversations' = IF found = 0
                                    THEN Append(conversations, NewConversation(email, bot_id, user_id, now))
                                    ELSE conversations
                /\ st' = [st EXCEPT ![s] =
                            [NoStream EXCEPT !.pc = "start", !.kind = "turn", !.email = email,
                                             !.bot_id = bot_id, !.conv = conv,
                                             !.title = IF found = 0 THEN NewChat
                                                      ELSE conversations[found].title,
                                             !.uid = IF /\ found # 0
                                                        /\ conversations[found].user_id = None
                                                        /\ user_id # None
                                                     THEN user_id ELSE 0,
                                             !.message = message, !.at = now]]
                /\ ev' = Event("chat_stream", "done", 200, "stream", email, None, conv)

\* a test that lets a message of any role pass
IsUserMessage_AnyRole(msg) == TRUE

\* msg.role == "user": the messages the edit handlers accept
IsUserMessage(msg) == messages[msg].role = "user"

\* a delete statement that matches no row
LaterMessages_None(chat_id, msg) == {}

\* the rows of filter(conversation_id == msg.conversation_id, id > msg.id)
LaterMessages(chat_id, msg) ==
    {i \in MessageIds : messages[i].conversation_id = chat_id /\ i > msg}

\* POST /api/history/{bot_id}/{chat_id}/messages/{message_id}/edit/stream
\* up to the StreamingResponse: the checks, the edit of the message and
\* the delete statement for the messages after it, both uncommitted.
message_edit_stream(s, email, bot_id, chat_id, message_id, raw_content) ==
    LET new_content == Strip(raw_content)
        msg == IF /\ message_id \in MessageIds
                  /\ messages[message_id].conversation_id = chat_id
                  /\ FindConversation(chat_id, email, bot_id) # 0
               THEN message_id ELSE 0
        refuse(status, detail) ==
            /\ ev' = Event("edit_stream", "done", status, detail, email, None, 0)
            /\ UNCHANGED st
    IN  /\ StreamSlot(s)
        /\ EventLoopFree
        /\ UNCHANGED <<cacheVars, now, users, refresh_tokens, reset_tokens, th, conversations, messages>>
        /\ IF email = <<>> THEN refuse(401, "Not authenticated")
           ELSE IF bot_id \notin BOTS THEN refuse(400, "Unknown bot_id")
           ELSE IF is_ephemeral_bot(bot_id)
           THEN /\ st' = [st EXCEPT ![s] = [NoStream EXCEPT !.pc = "start", !.kind = "ephemeral_edit",
                                                            !.email = email, !.bot_id = bot_id,
                                                            !.conv = chat_id]]
                /\ ev' = Event("edit_stream", "done", 200, "stream", email, None, 0)
           ELSE IF new_content = <<>> THEN refuse(400, "content required")
           ELSE IF msg = 0 THEN refuse(404, "message not found")
           ELSE IF ~IsUserMessage(msg) THEN refuse(400, "only user messages can be edited")
           ELSE /\ Len(messages) + RowsToCome + 1 <= MaxMessages
                /\ st' = [st EXCEPT ![s] =
                            [NoStream EXCEPT !.pc = "start", !.kind = "edit", !.email = email,
                                             !.bot_id = bot_id, !.conv = chat_id, !.msg = msg,
                                             !.message = new_content, !.at = now,
                                             !.deleted = LaterMessages(chat_id, msg)]]
                /\ ev' = Event("edit_stream", "done", 200, "stream", email, None, msg)

Emit(s, data, event) == Append(st[s].events, sse_event(data, event))

\* the generator up to its first yield: the meta event.  reply: what the
\* plain runner of a bot without runner_stream returns when called next.
stream_meta(s, reply) ==
    /\ st[s].pc = "start"
    /\ st' = [st EXCEPT ![s].pc = "run",
                        ![s].events = Emit(s, [chat_id |-> IF st[s].kind = "ephemeral"
                                                           THEN None ELSE st[s].conv], "meta"),
                        ![s].reply = IF HasRunnerStream(st[s].bot_id) THEN <<>> ELSE reply]
    /\ UNCHANGED <<cacheVars, authVars, conversations, messages>>

\* reply[i : i + 20] for the slice with index k
Slice(reply, k) ==
    SubSeq(reply, SliceLen * k + 1,
           IF SliceLen * (k + 1) < Len(reply) THEN SliceLen * (k + 1) ELSE Len(reply))

\* the chunks of the reply are all out (a runner_stream may end anywhere)
Drained(s) ==
    \/ st[s].pc = "drained"
    \/ HasRunnerStream(st[s].bot_id)
    \/ SliceLen * Len(st[s].parts) >= Len(st[s].reply)

\* one turn of the chunk loop: an empty chunk is skipped, any other is
\* kept in assistant_parts and sent as a delta event
stream_chunk(s, chunk) ==
    LET next == IF HasRunnerStream(st[s].bot_id) THEN chunk
                ELSE Slice(st[s].reply, Len(st[s].parts))
    IN  /\ st[s].pc = "run"
        /\ st[s].kind \in {"turn", "edit", "ephemeral"}
        /\ IF HasRunnerStream(st[s].bot_id)
           THEN Len(st[s].parts) < MaxChunks
           ELSE ~Drained(s)
        /\ st' = IF next = <<>> THEN st
                 ELSE [st EXCEPT ![s].parts = Append(@, next),
                                 ![s].events = Emit(s, [delta |-> next], "delta")]
        /\ UNCHANGED <<cacheVars, authVars, conversations, messages>>

\* the model call raises inside stream_chat, which yields its apology as
\* the last chunk
stream_chat_error(s) ==
    /\ st[s].pc = "run"
    /\ st[s].kind \in {"turn", "edit", "ephemeral"}
    /\ HasRunnerStream(st[s].bot_id)
    /\ st' = [st EXCEPT ![s].pc = "drained",
                        ![s].parts = Append(@, ApologyText),
                        ![s].events = Emit(s, [delta |-> ApologyText], "delta")]
    /\ UNCHANGED <<cacheVars, authVars, conversations, messages>>

\* the title the turn leaves on its conversation: derived from the message
\* when the row the session loaded is still titled "New chat"
TurnTitle(r) ==
    LET base == make_title(r.message)
    IN  IF r.title = NewChat /\ base # NewChat
        THEN unique_title(r.email, r.bot_id, base, r.conv)
        ELSE r.title

\* a commit that stores the user message alone
TurnWrites_UserOnly(r) ==
    [messages |-> Append(messages, NewMessage(r.conv, "user", r.message, r.at)),
     conversations |-> conversations]

\* what db.commit() of a streamed turn stores: the user message, the
\* assistant message, and the changed columns of the conversation
TurnWrites(r) ==
    [messages |-> messages \o <<NewMessage(r.conv, "user", r.message, r.at),
                                NewMessage(r.conv, "assistant", Join(r.parts), r.at)>>,
     conversations |->
        [conversations EXCEPT ![r.conv] =
            [@ EXCEPT !.updated_at = r.at,
                      !.title = IF TurnTitle(r) # r.title THEN TurnTitle(r) ELSE @,
                      !.user_id = IF r.uid # 0 THEN r.uid ELSE @]]]

\* what db.commit() of a streamed edit stores: the edited message, the
\* rows of the delete statement gone, the new assistant message
EditWrites(r, at) ==
    [messages |->
        Append([i \in 1..Len(messages) |->
                    IF i = r.msg
                    THEN [messages[i] EXCEPT !.content = r.message, !.is_edited = TRUE,
                                             !.edited_at = r.at]
                    ELSE IF i \in r.deleted THEN [messages[i] EXCEPT !.removed = TRUE]
                    ELSE messages[i]],
               NewMessage(r.conv, "assistant", Join(r.parts), at)),
     conversations |-> [conversations EXCEPT ![r.conv].updated_at = at]]

\* the data of the done event
DoneData(r, at) ==
    CASE r.kind = "turn" ->
            [chat_id |-> r.conv,
             title |-> summarize_title(IF TurnTitle(r) = <<>> THEN NewChat ELSE TurnTitle(r)),
             updated_at |-> r.at]
      [] r.kind = "edit" -> [chat_id |-> r.conv, updated_at |-> at]
      [] r.kind = "ephemeral" ->
            [chat_id |-> None, title |-> <<"H", "e", "l", "p", " ", "c", "h", "a", "t">>,
             updated_at |-> at]
      [] r.kind = "ephemeral_edit" -> [chat_id |-> r.conv, updated_at |-> at]

\* StreamErrorEvents without the yield of the except clause
StreamErrorEvents_Silent(s) == st[s].events

\* except Exception: db.rollback(); yield sse_event(..., event="error")
StreamErrorEvents(s) == Emit(s, [message |-> "server_error"], "error")

\* the generator after the chunk loop: the assistant message is added, the
\* conversation updated, all committed, then the done event; an exception
\* on the way (fault = TRUE, or the edited row is gone at the commit) rolls
\* the session back and sends the error event instead.
stream_finish(s, fault) ==
    LET r      == st[s]
        raises == \/ fault /\ r.kind # "ephemeral_edit"
                  \/ r.kind = "edit" /\ messages[r.msg].removed
        writes == CASE r.kind = "turn" -> TurnWrites(r)
                    [] r.kind = "edit" -> EditWrites(r, now)
                    [] OTHER -> [messages |-> messages, conversations |-> conversations]
    IN  /\ r.pc \in {"run", "drained"}
        /\ Drained(s)
        /\ UNCHANGED <<cacheVars, authVars>>
        /\ IF raises
           THEN /\ st' = [st EXCEPT ![s].pc = "closed",
                                    ![s].events = StreamErrorEvents(s)]
                /\ UNCHANGED <<conversations, messages>>
           ELSE /\ messages' = writes.messages
                /\ conversations' = writes.conversations
                /\ st' = [st EXCEPT ![s].pc = "closed",
                                    ![s].events = Emit(s, DoneData(r, now), "done")]

\* the client goes away: the generator is not resumed, the session is
\* closed with what it held uncommitted
stream_disconnect(s) ==
    /\ st[s].pc \in {"start", "run", "drained"}
    /\ st' = [st EXCEPT ![s].pc = "dropped"]
    /\ UNCHANGED <<cacheVars, authVars, conversations, messages>>

\* ------------------------------------------------------ non-streamed turn
\* POST /api/chat up to the call of the bot's runner: the checks, the
\* conversation (looked up, or created and committed), the user message
\* added to the session.  The handler is a coroutine that never awaits:
\* while the runner is busy no other coroutine handler starts, so the call
\* holds the slot.  fault = TRUE: create_conversation raises.
chat_api(s, email, bot_id, raw_message, chat_id, fault) ==
    LET message == Strip(raw_message)
        pid     == payload_id(chat_id)
        found   == IF chat_id = JsonNull \/ pid.raises # "" THEN 0
                   ELSE FindConversation(pid.id, email, bot_id)
        user_id == get_chatbot_user_id(email)
        conv    == IF found = 0 THEN Len(conversations) + 1 ELSE found
        refuse(status, detail) ==
            /\ ev' = Event("chat", "done", status, detail, email, None, 0)
            /\ UNCHANGED <<conversations, st>>
    IN  /\ StreamSlot(s)
        /\ EventLoopFree
        /\ UNCHANGED <<cacheVars, now, users, refresh_tokens, reset_tokens, th, messages>>
        /\ IF email = <<>> THEN refuse(401, "Not authenticated")
           ELSE IF bot_id = "" \/ message = <<>> THEN refuse(400, "bot_id and message required")
           ELSE IF bot_id \notin BOTS THEN refuse(400, "Unknown bot_id")
           ELSE IF chat_id # JsonNull /\ pid.raises = "OverflowError" THEN refuse(500, "server_error")
           ELSE IF found = 0 /\ fault THEN refuse(500, "server_error")
           ELSE /\ found = 0 => Len(conversations) < MaxConversations
                /\ Len(messages) + RowsToCome + 2 <= MaxMessages
                /\ conversations' = IF found = 0
                                    THEN Append(conversations, NewConversation(email, bot_id, user_id, now))
                                    ELSE conversations
                /\ st' = [st EXCEPT ![s] =
                            [NoStream EXCEPT !.pc = "call", !.kind = "call", !.email = email,
                                             !.bot_id = bot_id, !.conv = conv,
                                             !.title = IF found = 0 THEN NewChat
                                                      ELSE conversations[found].title,
                                             !.uid = IF /\ found # 0
                                                        /\ conversations[found].user_id = None
                                                        /\ user_id # None
                                                     THEN user_id ELSE 0,
                                             !.message = message, !.at = now]]
                /\ ev' = Event("chat", "call", 0, "", email, None, conv)

\* the JSON body of a turn's response
ChatResponse(r, reply) ==
    [reply |-> reply, chat_id |-> r.conv,
     title |-> summarize_title(TurnTitle(r)), updated_at |-> r.at]

\* a runner that returns the model's reply whatever happened
RunnerReply_Echo(reply, llm_fails) == reply

\* what the runner of a registered bot returns: the model's reply, or its
\* apology when the model call raises
RunnerReply(reply, llm_fails) == IF llm_fails THEN ApologyText ELSE reply

\* POST /api/chat from the runner's return on: the assistant message, the
\* conversation's columns and title, the commit and the response.
\* fault = TRUE: the runner, the title query or db.commit() raises; the
\* request is answered 500 and its session closed with nothing committed.
\* The detail of a 200 event notes whether the model call had failed.
chat_api_reply(s, reply, llm_fails, fault) ==
    LET r == [st[s] EXCEPT !.parts = <<RunnerReply(reply, llm_fails)>>]
    IN  /\ st[s].pc = "call"
        /\ UNCHANGED <<cacheVars, now, users, refresh_tokens, reset_tokens, th>>
        /\ IF fault
           THEN /\ ev' = Event("chat", "done", 500, "server_error", r.email, None, 0)
                /\ st' = [st EXCEPT ![s].pc = "closed"]
                /\ UNCHANGED <<conversations, messages>>
           ELSE /\ messages' = TurnWrites(r).messages
                /\ conversations' = TurnWrites(r).conversations
                /\ st' = [st EXCEPT ![s].pc = "closed", ![s].parts = r.parts]
                /\ ev' = Event("chat", "done", 200,
                               IF llm_fails THEN "model call failed" ELSE "", r.email, None,
                               ChatResponse(r, RunnerReply(reply, llm_fails)))

\* ------------------------------------------------- conversation handlers
\* POST /api/history/{bot_id}/new.  email = <<>>: no valid access token.
history_new(email, bot_id) ==
    LET user_id == get_chatbot_user_id(email)
        refuse(status, detail) ==
            /\ ev' = Event("history_new", "done", status, detail, email, None, 0)
            /\ UNCHANGED conversations
    IN  /\ UNCHANGED <<cacheVars, now, users, refresh_tokens, reset_tokens, th, messages, st>>
        /\ IF email = <<>> THEN refuse(401, "Not authenticated")
           ELSE IF bot_id \notin BOTS THEN refuse(400, "Unknown bot_id")
           ELSE IF is_ephemeral_bot(bot_id)
           THEN /\ ev' = Event("history_new", "done", 200, "", email, None,
                               [chat_id |-> None, title |-> <<"H", "e", "l", "p", " ", "c", "h", "a", "t">>])
                /\ UNCHANGED conversations
           ELSE /\ conversations' = Append(conversations, NewConversation(email, bot_id, user_id, now))
                /\ ev' = Event("history_new", "done", 200, "", email, None,
                               [chat_id |-> Len(conversations) + 1, title |-> NewChat])

\* POST /api/history/{bot_id}/{chat_id}/rename with payload.title = title;
\* the event keeps the normalised title of the request in tok.  The
\* handler's two queries and its commit are taken as one step.
history_rename(email, bot_id, chat_id, title) ==
    LET new_title == NormWs(title)
        conv      == FindConversation(chat_id, email, bot_id)
        stored    == unique_title(email, bot_id, new_title, conv)
        refuse(status, detail) ==
            /\ ev' = Event("history_rename", "done", status, detail, email, new_title, 0)
            /\ UNCHANGED conversations
    IN  /\ UNCHANGED <<cacheVars, now, users, refresh_tokens, reset_tokens, th, messages, st>>
        /\ IF email = <<>> THEN refuse(401, "Not authenticated")
           ELSE IF bot_id \notin BOTS THEN refuse(400, "Unknown bot_id")
           ELSE IF is_ephemeral_bot(bot_id)
           THEN /\ ev' = Event("history_rename", "done", 200, "", email, new_title,
                               [ok |-> TRUE, chat_id |-> chat_id, updated_at |-> None,
                                title |-> <<"H", "e", "l", "p", " ", "c", "h", "a", "t">>,
                                full_title |-> <<"H", "e", "l", "p", " ", "c", "h", "a", "t">>])
                /\ UNCHANGED conversations
           ELSE IF new_title = <<>> THEN refuse(400, "title required")
           ELSE IF conv = 0 THEN refuse(404, "chat not found")
           ELSE /\ conversations' = [conversations EXCEPT ![conv].title = stored,
                                                          ![conv].updated_at = now]
                /\ ev' = Event("history_rename", "done", 200, "", email, new_title,
                               [ok |-> TRUE, chat_id |-> conv, updated_at |-> now,
                                title |-> summarize_title(stored), full_title |-> stored])

\* POST /api/history/{bot_id}/{chat_id}/delete; the event keeps the bot
\* id and chat id of the request in tok.  The cookie the response may clear is the
\* browser's and not part of the stored state.
history_delete(email, bot_id, chat_id) ==
    LET conv == FindConversation(chat_id, email, bot_id)
        req  == [bot_id |-> bot_id, chat_id |-> chat_id]
        refuse(status, detail) ==
            /\ ev' = Event("history_delete", "done", status, detail, email, req, 0)
            /\ UNCHANGED conversations
    IN  /\ UNCHANGED <<cacheVars, now, users, refresh_tokens, reset_tokens, th, messages, st>>
        /\ IF email = <<>> THEN refuse(401, "Not authenticated")
           ELSE IF bot_id \notin BOTS THEN refuse(400, "Unknown bot_id")
           ELSE IF is_ephemeral_bot(bot_id)
           THEN /\ ev' = Event("history_delete", "done", 200, "", email, req,
                               [ok |-> TRUE, chat_id |-> chat_id])
                /\ UNCHANGED conversations
           ELSE IF conv = 0 THEN refuse(404, "chat not found")
           ELSE /\ conversations' = [conversations EXCEPT ![conv].is_deleted = TRUE,
                                                          ![conv].updated_at = now]
                /\ ev' = Event("history_delete", "done", 200, "", email, req,
                               [ok |-> TRUE, chat_id |-> chat_id])

\* list_conversations: the caller's conversations of the bot that are not
\* deleted, by coalesce(updated_at, created_at) descending, then id
\* descending, the first 50
ListedIds(email, bot_id) ==
    {i \in ConversationIds : /\ conversations[i].email = email
                             /\ conversations[i].bot_id = bot_id
                             /\ ~conversations[i].is_deleted}

\* an order by id alone
ListedBefore_ById(i, j) == i > j

ListedBefore(i, j) ==
    \/ conversations[i].updated_at > conversations[j].updated_at
    \/ conversations[i].updated_at = conversations[j].updated_at /\ i > j

RECURSIVE SortListed(_)
SortListed(ids) ==
    IF ids = {} THEN <<>>
    ELSE LET first == CHOOSE i \in ids : \A j \in ids \ {i} : ListedBefore(i, j)
         IN  <<first>> \o SortListed(ids \ {first})

list_conversations(email, bot_id) == FirstN(SortListed(ListedIds(email, bot_id)), ListLimit)

\* build_history_items
build_history_items(convs) ==
    [k \in 1..Len(convs) |->
        [chat_id |-> convs[k],
         title |-> summarize_title(conversations[convs[k]].title),
         updated_at |-> conversations[convs[k]].updated_at]]

\* GET /api/history/{bot_id}; the event keeps the bot id of the path in tok
history_list(email, bot_id) ==
    /\ UNCHANGED <<cacheVars, now, users, refresh_tokens, reset_tokens, th, chatVars>>
    /\ ev' = IF email = <<>>
             THEN Event("history_list", "done", 401, "Not authenticated", email, bot_id, 0)
             ELSE Event("history_list", "done", 200, "", email, bot_id,
                        [items |-> IF is_ephemeral_bot(bot_id) THEN <<>>
                                   ELSE build_history_items(list_conversations(email, bot_id))])

\* the orders in which the messages of a conversation can come back from
\* order_by(created_at): rows with equal created_at come in any order
MessageOrders(conv) ==
    LET ids == {i \in MessageIds : messages[i].conversation_id = conv}
    IN  {o \in [1..Cardinality(ids) -> ids] :
            /\ \A k, l \in DOMAIN o : k # l => o[k] # o[l]
            /\ \A k, l \in DOMAIN o :
                    k < l => messages[o[k]].created_at <= messages[o[l]].created_at}

\* GET /api/history/{bot_id}/{chat_id}; order: the order the rows came in
history_get(email, bot_id, chat_id, order) ==
    LET conv == FindConversation(chat_id, email, bot_id)
    IN  /\ UNCHANGED <<cacheVars, now, users, refresh_tokens, reset_tokens, th, chatVars>>
        /\ conv # 0 /\ email # <<>> /\ ~is_ephemeral_bot(bot_id) => order \in MessageOrders(conv)
        /\ ev' = IF email = <<>>
                 THEN Event("history_get", "done", 401, "Not authenticated", email, None, 0)
                 ELSE IF is_ephemeral_bot(bot_id)
                 THEN Event("history_get", "done", 200, "", email, None,
                            [chat_id |-> chat_id, messages |-> <<>>, updated_at |-> None,
                             title |-> <<"H", "e", "l", "p", " ", "c", "h", "a", "t">>])
                 ELSE IF conv = 0
                 THEN Event("history_get", "done", 200, "", email, None,
                            [chat_id |-> chat_id, messages |-> <<>>])
                 ELSE Event("history_get", "done", 200, "", email, None,
                            [chat_id |-> conv,
                             messages |-> [k \in 1..Len(order) |->
                                 [id |-> order[k], role |-> messages[order[k]].role,
                                  content |-> messages[order[k]].content,
                                  is_edited |-> messages[order[k]].is_edited,
                                  edited_at |-> messages[order[k]].edited_at]],
                             title |-> summarize_title(conversations[conv].title),
                             updated_at |-> conversations[conv].updated_at])

\* POST /api/history/{bot_id}/{chat_id}/messages/{message_id}/edit, its
\* queries, the runner call and the commit taken as one step.  reply and
\* llm_fails: the outcome of the model call; fault = TRUE: db.commit()
\* raises and nothing is stored.
message_edit(email, bot_id, chat_id, message_id, raw_content, regenerate, reply, llm_fails, fault) ==
    LET new_content == Strip(raw_content)
        msg == IF /\ message_id \in MessageIds
                  /\ messages[message_id].conversation_id = chat_id
                  /\ FindConversation(chat_id, email, bot_id) # 0
               THEN message_id ELSE 0
        later == LaterMessages(chat_id, msg)
        edited == [i \in 1..Len(messages) |->
                    IF i = msg
                    THEN [messages[i] EXCEPT !.content = new_content, !.is_edited = TRUE,
                                             !.edited_at = now]
                    ELSE IF regenerate /\ i \in later
                    THEN [messages[i] EXCEPT !.removed = TRUE]
                    ELSE messages[i]]
        refuse(status, detail) ==
            /\ ev' = Event("edit", "done", status, detail, email, None, 0)
            /\ UNCHANGED <<conversations, messages>>
    IN  /\ UNCHANGED <<cacheVars, now, users, refresh_tokens, reset_tokens, th, st>>
        /\ IF email = <<>> THEN refuse(401, "Not authenticated")
           ELSE IF bot_id \notin BOTS THEN refuse(400, "Unknown bot_id")
           ELSE IF is_ephemeral_bot(bot_id)
           THEN /\ ev' = Event("edit", "done", 200, "", email, None,
                               [ok |-> TRUE, chat_id |-> chat_id, message_id |-> message_id])
                /\ UNCHANGED <<conversations, messages>>
           ELSE IF new_content = <<>> THEN refuse(400, "content required")
           ELSE IF msg = 0 THEN refuse(404, "message not found")
           ELSE IF ~IsUserMessage(msg) THEN refuse(400, "only user messages can be edited")
           ELSE IF fault THEN refuse(500, "server_error")
           ELSE /\ regenerate => Len(messages) + RowsToCome + 1 <= MaxMessages
                /\ messages' = IF regenerate
                               THEN Append(edited, NewMessage(chat_id, "assistant",
                                                              RunnerReply(reply, llm_fails), now))
                               ELSE edited
                /\ conversations' = [conversations EXCEPT ![chat_id].updated_at = now]
                /\ ev' = Event("edit", "done", 200, "", email, None,
                               [ok |-> TRUE, chat_id |-> chat_id, message_id |-> msg,
                                edited_at |-> now,
                                assistant_message_id |-> IF regenerate THEN Len(messages) + 1
                                                        ELSE None])

\* ------------------------------------------------- refresh-token scenarios
Mail(local) == local \o AvocarbonDomain

PwGood == [i \in 1..MinPasswordLen |-> "p"]

PwOther == [i \in 1..MinPasswordLen |-> "q"]

PwShort == [i \in 1..(MinPasswordLen - 1) |-> "p"]

CommitFaults == {"none", "user_commit", "refresh_commit"}

\* what a client can put in the refresh cookie: nothing, a value the server
\* never issued (0), or a token some response carried
PresentableTokens == {None, 0} \cup (1..Len(refresh_tokens))

RefreshSignup == signup(<<"J", "o">>, Mail(<<"a">>), PwGood, PwGood, "none")

RefreshLogin == login(Mail(<<"a">>), PwGood, "none")

RefreshLookup == \E t \in Threads, token \in PresentableTokens : refresh_lookup(t, token)

RefreshRotate == \E t \in Threads : refresh_rotate(t)

RefreshRotateFail == \E t \in Threads : refresh_rotate_fail(t)

Logout == \E t \in Threads, token \in PresentableTokens, fault \in BOOLEAN : logout(t, token, fault)

RefreshNext ==
    \/ RefreshSignup
    \/ RefreshLogin
    \/ RefreshLookup
    \/ RefreshRotate
    \/ RefreshRotateFail
    \/ Logout
    \/ TickRefreshTtl

SpecRefresh == Init /\ [][RefreshNext]_vars

\* ------------------------------------------------- reset-token scenarios
ForgotEmails == {Mail(<<"a">>), <<" ">> \o Mail(<<"A">>), Mail(<<"b">>), <<"a">>, <<" ">>}

ResetSignup == signup(<<"J", "o">>, Mail(<<"a">>), PwGood, PwGood, "none")

ForgotLookup == \E t \in Threads, e \in ForgotEmails : forgot_lookup(t, e)

ForgotCommit == \E t \in Threads, outcome \in {"ok", "commit_fails", "send_fails"} :
                    forgot_commit(t, outcome)

\* token, password, confirmation, email of a reset request
ResetInputs ==
    {<<k, PwOther, PwOther, <<>> >> : k \in {None, 0} \cup (1..Len(reset_tokens))}
    \cup {<<k, PwShort, PwShort, <<>> >> : k \in 1..Len(reset_tokens)}
    \cup {<<k, PwOther, PwGood, <<>> >> : k \in 1..Len(reset_tokens)}
    \cup {<<k, PwOther, PwOther, Mail(<<"A">>)>> : k \in 1..Len(reset_tokens)}
    \cup {<<k, PwOther, PwOther, Mail(<<"b">>)>> : k \in 1..Len(reset_tokens)}

ResetLookup == \E t \in Threads, i \in ResetInputs : reset_lookup(t, i[1], i[2], i[3], i[4])

ResetCommitUser == \E t \in Threads, fault \in BOOLEAN : reset_commit_user(t, fault)

ResetCommitToken == \E t \in Threads, fault \in BOOLEAN : reset_commit_token(t, fault)

ResetNext ==
    \/ ResetSignup
    \/ ForgotLookup
    \/ ForgotCommit
    \/ ResetLookup
    \/ ResetCommitUser
    \/ ResetCommitToken
    \/ TickHour

SpecReset == Init /\ [][ResetNext]_vars

\* ------------------------------------------------------ signup scenarios
\* name, email, password, confirmation and storage fault of a signup: the
\* acceptable requests with every fault, and one request for each check
SignupRequests ==
    {<<n, e, PwGood, PwGood, f>> :
        n \in {<<"J", "o">>, <<" ", "J", "o", " ">>},
        e \in {Mail(<<"a">>), <<" ">> \o Mail(<<"A">>) \o <<" ">>, Mail(<<"b">>)},
        f \in CommitFaults}
    \cup {<<<<" ", "J", " ">>, Mail(<<"a">>), PwGood, PwGood, "none">>,
          <<<<"J", "o">>, <<"a">>, PwGood, PwGood, "none">>,
          <<<<"J", "o">>, <<"a", "@", "x">>, PwGood, PwGood, "none">>,
          <<<<"J", "o">>, Mail(<<"a">>), PwShort, PwShort, "none">>,
          <<<<"J", "o">>, Mail(<<"a">>), PwGood, PwOther, "none">>}

Signup == \E q \in SignupRequests : signup(q[1], q[2], q[3], q[4], q[5])

\* email, password and storage fault of a login
LoginRequests ==
    {<<e, PwGood, f>> : e \in {Mail(<<"a">>), <<" ">> \o Mail(<<"A">>)}, f \in CommitFaults}
    \cup {<<Mail(<<"a">>), PwOther, "none">>, <<Mail(<<"b">>), PwGood, "none">>}

Login == \E q \in LoginRequests : login(q[1], q[2], q[3])

SignupNext ==
    \/ Signup
    \/ Login
    \/ TickHour

SpecSignup == Init /\ [][SignupNext]_vars

\* ---------------------------------------------------- streaming scenarios
MsgHi == <<"H", "i">>

MsgHelp == <<"n", "e", "e", "d", " ", "h", "e", "l", "p", " ", "n", "o", "w">>

StreamChunks == {<<"o", "k">>, <<>>}

StreamReplies == {<<>>, [i \in 1..(SliceLen + 1) |-> "r"]}

\* email, bot id, message and chat id of a streamed turn: the valid
\* requests, and one request for each way of being refused
TurnRequests ==
    {<<Mail(<<"a">>), "training", m, c>> :
        m \in {MsgHi, <<" ">> \o MsgHelp}, c \in {None} \cup (1..(Len(conversations) + 1))}
    \cup {<< <<>>, "training", MsgHi, None>>,
          <<Mail(<<"a">>), "training", <<" ">>, None>>,
          <<Mail(<<"a">>), "widget", MsgHi, None>>}

ChatStream ==
    \E s \in Streams, q \in TurnRequests, fault \in BOOLEAN :
        chat_api_stream(s, q[1], q[2], q[3], JsonId(q[4]), fault)

\* email, bot id, chat id, message id and content of a streamed edit
EditRequests ==
    {<<Mail(<<"a">>), "training", c, i, MsgHelp>> :
        c \in 1..Len(conversations), i \in 1..(Len(messages) + 1)}
    \cup {<<Mail(<<"a">>), "training", 1, 1, <<" ">> >>}

EditStream ==
    \E s \in Streams, q \in EditRequests :
        message_edit_stream(s, q[1], q[2], q[3], q[4], q[5])

StreamMeta == \E s \in Streams, reply \in StreamReplies : stream_meta(s, reply)

StreamChunk == \E s \in Streams, chunk \in StreamChunks : stream_chunk(s, chunk)

StreamChatError == \E s \in Streams : stream_chat_error(s)

StreamFinish == \E s \in Streams, fault \in BOOLEAN : stream_finish(s, fault)

StreamDisconnect == \E s \in Streams : stream_disconnect(s)

StreamNext ==
    \/ ChatStream
    \/ EditStream
    \/ StreamMeta
    \/ StreamChunk
    \/ StreamChatError
    \/ StreamFinish
    \/ StreamDisconnect

SpecStream == Init /\ [][StreamNext]_vars

\* the replies of the model to a non-streamed turn
ChatReplies == {<<"o", "k">>}

ChatApi ==
    \E s \in Streams, q \in TurnRequests, fault \in BOOLEAN :
        chat_api(s, q[1], q[2], q[3], JsonId(q[4]), fault)

ChatApiReply ==
    \E s \in Streams, reply \in ChatReplies, llm_fails \in BOOLEAN, fault \in BOOLEAN :
        chat_api_reply(s, reply, llm_fails, fault)

\* turns of both kinds
DurableNext ==
    \/ ChatApi
    \/ ChatApiReply
    \/ ChatStream
    \/ StreamMeta
    \/ StreamChunk
    \/ StreamChatError
    \/ StreamFinish
    \/ StreamDisconnect

SpecDurable == Init /\ [][DurableNext]_vars

\* streamed turns alone; a generator whose client stays connected is
\* resumed until it ends
TurnNext ==
    \/ ChatStream
    \/ StreamMeta
    \/ StreamChunk
    \/ StreamChatError
    \/ StreamFinish
    \/ StreamDisconnect

\* stream_finish can take a step: with fault it always changes st
CanFinish == \E s \in Streams : st[s].pc \in {"run", "drained"} /\ Drained(s)

\* weak fairness of the generator's steps; that of StreamFinish is written
\* out with CanFinish, its enabling condition
SpecTurnLive ==
    /\ Init
    /\ [][TurnNext]_vars
    /\ WF_vars(StreamMeta)
    /\ ([]<>~CanFinish \/ []<><<StreamFinish>>_vars)

\* ------------------------------------------------------- title scenarios
MaxTitled == 3

TitleA == <<"A">>

Numbered(base, num) == base \o <<" ", "(">> \o num \o <<")">>

\* titles a rename request can carry
RenameTitles ==
    {TitleA, <<" ">> \o TitleA \o <<" ">>, Numbered(TitleA, <<"0", "2">>),
     Numbered(TitleA, <<"3">>), <<" ">>}

HistoryNew ==
    /\ Len(conversations) < MaxTitled
    /\ \E q \in {<<Mail(<<"a">>), "training">>, << <<>>, "training">>,
                  <<Mail(<<"a">>), "widget">>} :
            history_new(q[1], q[2])

HistoryRename ==
    \E email \in {Mail(<<"a">>), <<>>}, bot_id \in {"training", "widget"},
       chat_id \in 1..(Len(conversations) + 1), title \in RenameTitles :
        history_rename(email, bot_id, chat_id, title)

TitleNext ==
    \/ HistoryNew
    \/ HistoryRename

SpecTitle == Init /\ [][TitleNext]_vars

\* ------------------------------------------------------ delete scenarios
HistoryDelete ==
    \E email \in {Mail(<<"a">>), Mail(<<"b">>), <<>>}, bot_id \in {"training", "personal", "widget"},
       chat_id \in 1..(Len(conversations) + 1) :
        history_delete(email, bot_id, chat_id)

DeleteNext ==
    \/ HistoryNew
    \/ HistoryDelete
    \/ TickHour

SpecDelete == Init /\ [][DeleteNext]_vars

\* ------------------------------------------ scenarios on foreign chat ids
\* two users and two bots: turns of both kinds that name no chat, a chat
\* of the caller, a chat of the other user or of the other bot, or a
\* chat id that is no integer
OwnerEmails == {Mail(<<"a">>), Mail(<<"b">>)}

OwnerBots == {"training", "personal"}

OwnerChatIds ==
    {JsonNull, JsonInt(1), JsonInt(2), JsonStr(<<"1">>), JsonStr(<<"x">>),
     JsonFloat(1), JsonNaN, JsonInf}

OwnerTurn ==
    \E s \in Streams, e \in OwnerEmails, b \in OwnerBots, c \in OwnerChatIds :
        chat_api(s, e, b, MsgHi, c, FALSE)

OwnerTurnReply == \E s \in Streams : chat_api_reply(s, <<"o", "k">>, FALSE, FALSE)

OwnerTurnStream ==
    \E s \in Streams, e \in OwnerEmails, b \in OwnerBots, c \in OwnerChatIds :
        chat_api_stream(s, e, b, MsgHi, c, FALSE)

OwnerNext ==
    \/ OwnerTurn
    \/ OwnerTurnReply
    \/ OwnerTurnStream
    \/ StreamMeta
    \/ StreamFinish

SpecOwner == Init /\ [][OwnerNext]_vars

\* ------------------------------------- scenarios on deleted conversations
\* one user and one bot: turns, deletes, listing, and every operation that
\* names the chat id of a deleted conversation
OwnerA == Mail(<<"a">>)

ChatIds == 1..(Len(conversations) + 1)

DeletedTurn ==
    \E s \in Streams, c \in {None} \cup ChatIds :
        chat_api(s, OwnerA, "training", MsgHi, JsonId(c), FALSE)

DeletedTurnReply == \E s \in Streams : chat_api_reply(s, <<"o", "k">>, FALSE, FALSE)

DeletedTurnStream ==
    \E s \in Streams, c \in ChatIds :
        chat_api_stream(s, OwnerA, "training", MsgHi, JsonId(c), FALSE)

DeletedDelete == \E c \in ChatIds : history_delete(OwnerA, "training", c)

DeletedList == history_list(OwnerA, "training")

\* the chat ids of deleted conversations
DeletedIds == {c \in ConversationIds : conversations[c].is_deleted}

DeletedGet == \E c \in DeletedIds : history_get(OwnerA, "training", c, <<>>)

DeletedRename == \E c \in DeletedIds : history_rename(OwnerA, "training", c, TitleA)

DeletedEdit ==
    \E c \in DeletedIds, i \in 1..Len(messages), regenerate \in BOOLEAN :
        message_edit(OwnerA, "training", c, i, MsgHi, regenerate, <<"o", "k">>, FALSE, FALSE)

DeletedEditStream ==
    \E s \in Streams, c \in DeletedIds, i \in 1..Len(messages) :
        message_edit_stream(s, OwnerA, "training", c, i, MsgHi)

DeletedNext ==
    \/ DeletedTurn
    \/ DeletedTurnReply
    \/ DeletedTurnStream
    \/ DeletedDelete
    \/ DeletedList
    \/ DeletedGet
    \/ DeletedRename
    \/ DeletedEdit
    \/ DeletedEditStream
    \/ StreamMeta
    \/ StreamFinish

SpecDeleted == Init /\ [][DeletedNext]_vars

\* ----------------------------------------------- first-message scenarios
\* first messages: too short, one word, too few letters, and meaningful
MsgHelloWorld == <<"h", "e", "l", "l", "o", " ", "w", "o", "r", "l", "d">>

MsgOneWord == <<"i", "n", "t", "e", "r", "n", "a", "t", "i", "o", "n", "a", "l", "i", "z", "a", "t", "i", "o", "n">>

MsgFewLetters == <<"a", "b", "c", " ", "1", "2", "3", "4", "5", "6", "7", "8">>

FirstMessages == {MsgHelloWorld, MsgOneWord, MsgFewLetters, MsgHelp}

FirstChatApi ==
    \E s \in Streams, m \in FirstMessages, c \in {None} \cup (1..Len(conversations)) :
        chat_api(s, Mail(<<"a">>), "training", m, JsonId(c), FALSE)

FirstNext ==
    \/ FirstChatApi
    \/ ChatApiReply

SpecFirst == Init /\ [][FirstNext]_vars

\* ----------------------------------------------------- listing scenarios
\* the first rows are created by one user or another, on one bot or
\* another, renamed and deleted while the clock moves; then the first user
\* fills the bot's history past the limit of the listing
ListOwners == {<<OwnerA, "training">>, <<Mail(<<"b">>), "training">>, <<OwnerA, "personal">>}

ListEarly == Len(conversations) <= MaxEarly

ListNew ==
    /\ Len(conversations) < MaxListed
    /\ \E q \in ListOwners :
          /\ q # <<OwnerA, "training">> => Len(conversations) < MaxEarly
          /\ history_new(q[1], q[2])

ListRename == ListEarly /\ history_rename(OwnerA, "training", 1, TitleA)

ListDelete == ListEarly /\ history_delete(OwnerA, "training", 2)

ListTick == ListEarly /\ TickHour

ListRequests == {<<OwnerA, "training">>, <<OwnerA, "widget">>, << <<>>, "training">>}

\* listings are requested while the history is short, and once it holds
\* about as many rows as the listing shows
ListList ==
    /\ ListEarly \/ Len(conversations) + MaxEarly >= MaxListed
    /\ \E q \in ListRequests : history_list(q[1], q[2])

ListNext ==
    \/ ListNew
    \/ ListRename
    \/ ListDelete
    \/ ListList
    \/ ListTick

SpecList == Init /\ [][ListNext]_vars

\* ------------------------------------------------------- cache scenarios
\* two users take turns on the ephemeral bot, one turn at a time, while
\* the clock moves past the TTL
CacheTick == Tick(1, MaxCacheHours)

CacheEmails == {OwnerA, Mail(<<"b">>)}

CacheModes == {"coach"}

PleaseDescribe == <<"P", "l", "e", "a", "s", "e", " ">> \o DescribeTheIssue

CacheReplies == {<<"o", "k">>, PleaseDescribe}

\* no history grows past the scenario's bound
ShortHistories ==
    \A r \in 1..Len(session_dicts) : Len(session_dicts[r].history) + 2 <= MaxHistory

TtlTurn ==
    /\ ShortHistories
    /\ \E e \in CacheEmails, m \in CacheModes : ephemeral_turn(1, e, "widget", m, MsgHi)

WidgetRun == \E t \in Turns : widget_run(t)

WidgetReply ==
    \E t \in Turns, reply \in CacheReplies, llm_fails \in BOOLEAN : widget_reply(t, reply, llm_fails)

TtlNext ==
    \/ TtlTurn
    \/ WidgetRun
    \/ WidgetReply
    \/ CacheTick

SpecCacheTtl == Init /\ [][TtlNext]_vars

\* one user sends the messages 1, 2, 3, 1, ... to the ephemeral bot, one
\* turn after the other, until the history has passed its limit; the
\* model call can fail while the history is short
Rotation == << <<"1">>, <<"2">>, <<"3">> >>

\* the history of the session the cache holds for the user
CachedHistory(email) ==
    IF EphemeralKey(email, "widget") \in DOMAIN EPHEMERAL_SESSIONS
    THEN session_dicts[EPHEMERAL_SESSIONS[EphemeralKey(email, "widget")].session].history
    ELSE <<>>

LastUserMessage(history) ==
    LET users_at == {i \in 1..Len(history) : history[i].role = "user"}
    IN  IF users_at = {} THEN <<>>
        ELSE history[CHOOSE i \in users_at : \A j \in users_at : j <= i].content

NextInRotation(m) ==
    IF m = <<>> THEN Rotation[1] ELSE Rotation[(IndexIn(Rotation, m) % Len(Rotation)) + 1]

CapTurn ==
    /\ Len(CachedHistory(OwnerA)) < EPHEMERAL_MAX_MESSAGES + MaxOver
    /\ ephemeral_turn(1, OwnerA, "widget", "coach",
                      NextInRotation(LastUserMessage(CachedHistory(OwnerA))))

CapRun == widget_run(1)

CapReply ==
    \E llm_fails \in BOOLEAN :
        /\ llm_fails => Len(CachedHistory(OwnerA)) <= MaxHistory
        /\ widget_reply(1, <<"o", "k">>, llm_fails)

CapNext ==
    \/ CapTurn
    \/ CapRun
    \/ CapReply

SpecCacheCap == Init /\ [][CapNext]_vars

\* turns on the ephemeral bot that run at the same time, for one key or
\* for two, while the clock moves past the TTL
RaceTurn ==
    /\ ShortHistories
    /\ \E t \in Turns, e \in CacheEmails : ephemeral_turn(t, e, "widget", "coach", MsgHi)

RaceReply == \E t \in Turns, llm_fails \in BOOLEAN : widget_reply(t, <<"o", "k">>, llm_fails)

RaceNext ==
    \/ RaceTurn
    \/ WidgetRun
    \/ RaceReply
    \/ CacheTick

SpecCacheRace == Init /\ [][RaceNext]_vars

\* -------------------------------------------------------- edit scenarios
\* one user's turns on one bot, and edits, plain and streamed, of any of
\* the messages, while the clock moves
EditTurn ==
    \E s \in Streams, c \in {None} \cup ChatIds :
        chat_api(s, OwnerA, "training", MsgHi, JsonId(c), FALSE)

EditTurnReply == \E s \in Streams : chat_api_reply(s, <<"o", "k">>, FALSE, FALSE)

EditContents == {MsgHelp, <<" ">>}

\* regenerate, llm_fails and fault of a plain edit
EditOutcomes ==
    {<<FALSE, FALSE, FALSE>>, <<TRUE, FALSE, FALSE>>, <<TRUE, TRUE, FALSE>>, <<FALSE, FALSE, TRUE>>}

EditPlain ==
    \E c \in ConversationIds, i \in 1..Len(messages), content \in EditContents, q \in EditOutcomes :
        message_edit(OwnerA, "training", c, i, content, q[1], <<"o", "k">>, q[2], q[3])

EditStreamed ==
    \E s \in Streams, c \in ConversationIds, i \in 1..Len(messages), content \in EditContents :
        message_edit_stream(s, OwnerA, "training", c, i, content)

EditNext ==
    \/ EditTurn
    \/ EditTurnReply
    \/ EditPlain
    \/ EditStreamed
    \/ StreamMeta
    \/ StreamFinish
    \/ TickHour

SpecEdit == Init /\ [][EditNext]_vars

\* ------------------------------------------------ the history of a turn
\* order_by(Message.created_at.asc()) over the rows with these ids.  Rows
\* with equal created_at come back in an order the database chooses:
\* ties_desc picks between two of these orders, by ascending and by
\* descending id.
RECURSIVE CreatedAsc(_, _)
CreatedAsc(ids, ties_desc) ==
    IF ids = {} THEN <<>>
    ELSE LET first == CHOOSE i \in ids : \A j \in ids \ {i} :
                          \/ messages[i].created_at < messages[j].created_at
                          \/ /\ messages[i].created_at = messages[j].created_at
                             /\ IF ties_desc THEN i > j ELSE i < j
         IN  <<first>> \o CreatedAsc(ids \ {first}, ties_desc)

\* the history chat_api and chat_api_stream hand to the runner: the rows
\* of the conversation in the session's view of the table (the user
\* message just added is not flushed: autoflush is off), ordered by
\* created_at, the first 60 of them, as role and content
load_history(conv, ties_desc) ==
    LET ids   == {i \in MessageIds : messages[i].conversation_id = conv}
        order == FirstN(CreatedAsc(ids, ties_desc), HistoryLimit)
    IN  [k \in 1..Len(order) |->
            [role |-> messages[order[k]].role, content |-> messages[order[k]].content]]

\* the rows n completed turns have stored in conversation 1: a user
\* message and the reply with the same created_at, pace turns to the hour
StoredTurns(n, pace) ==
    [k \in 1..(2 * n) |->
        NewMessage(1, IF k % 2 = 1 THEN "user" ELSE "assistant",
                   IF k % 2 = 1 THEN Rotation[(((k - 1) \div 2) % Len(Rotation)) + 1]
                   ELSE <<"o", "k">>,
                   ((k - 1) \div 2) \div pace)]

\* a conversation of one user with the training bot after 1 to
\* MaxStoredTurns turns
HistInit ==
    \E n \in 1..MaxStoredTurns, pace \in 1..MaxPace :
        /\ now = (n - 1) \div pace
        /\ users = <<>>
        /\ refresh_tokens = <<>>
        /\ reset_tokens = <<>>
        /\ th = [t \in Threads |-> Idle]
        /\ ev = NoEvent
        /\ conversations =
              <<[NewConversation(OwnerA, "training", None, 0)
                    EXCEPT !.title = make_title(Rotation[1]), !.updated_at = (n - 1) \div pace]>>
        /\ messages = StoredTurns(n, pace)
        /\ st = [s \in Streams |-> NoStream]
        /\ CacheInit

\* the query of the next turn on the conversation
HistLoad ==
    /\ \E ties_desc \in BOOLEAN :
          ev' = Event("chat", "history", 0, "", OwnerA, None,
                      [chat_id |-> 1, history |-> load_history(1, ties_desc)])
    /\ UNCHANGED <<cacheVars, now, users, refresh_tokens, reset_tokens, th, chatVars>>

\* the history detail of the conversation
HistGet ==
    \E ties_desc \in BOOLEAN :
        history_get(OwnerA, "training", 1, CreatedAsc({i \in MessageIds : messages[i].conversation_id = 1}, ties_desc))

HistNext ==
    \/ HistLoad
    \/ HistGet

SpecHistory == HistInit /\ [][HistNext]_vars

\* --------------------------------------------- scenarios on updated_at
\* one user's streamed turns on the training bot, new or on a conversation
\* of theirs, and renames of their conversations, which a worker thread
\* serves while a stream is open; the clock moves in between
UpdatedTurnStream ==
    \E s \in Streams, c \in {None} \cup ChatIds :
        chat_api_stream(s, OwnerA, "training", MsgHelp, JsonId(c), FALSE)

UpdatedRename == \E c \in ConversationIds : history_rename(OwnerA, "training", c, TitleA)

UpdatedNext ==
    \/ UpdatedTurnStream
    \/ StreamMeta
    \/ StreamFinish
    \/ UpdatedRename
    \/ TickHour

SpecUpdated == Init /\ [][UpdatedNext]_vars

\* ------------------------------------- scenarios on reset and refresh
\* one user signs up, asks for a reset link, resets the password and
\* presents refresh tokens, before and after the reset, while the clock
\* moves by an hour
KeptForgotLookup == \E t \in Threads : forgot_lookup(t, Mail(<<"a">>))

KeptForgotCommit == \E t \in Threads : forgot_commit(t, "ok")

KeptResetLookup ==
    \E t \in Threads, k \in 1..Len(reset_tokens) : reset_lookup(t, k, PwOther, PwOther, <<>>)

KeptNext ==
    \/ ResetSignup
    \/ KeptForgotLookup
    \/ KeptForgotCommit
    \/ KeptResetLookup
    \/ ResetCommitUser
    \/ ResetCommitToken
    \/ RefreshLookup
    \/ RefreshRotate
    \/ TickHour

SpecKept == Init /\ [][KeptNext]_vars

\* ---------------------------------------------------- refresh-token claims
RefreshIds == 1..Len(refresh_tokens)

\* the row of a presented token, 0 if the token is unknown
RowOf(token) == FirstRefreshByHash(hash_refresh_token(token))

\* some refresh request presenting this row has succeeded
Rotated(rec) == \E s \in RefreshIds : refresh_tokens[s].parent = rec

\* C1: once a refresh request presenting T has succeeded, every refresh
\* request that starts afterwards with T is answered 401
\* invalid_refresh_token, stores nothing and starts no rotation.
C1_RotatedTokenRejected ==
    [][(/\ ev'.op = "refresh"
        /\ ev'.step = "lookup"
        /\ RowOf(ev'.tok) # 0
        /\ Rotated(RowOf(ev'.tok)))
       => (/\ ev'.status = 401
           /\ ev'.detail = "invalid_refresh_token"
           /\ refresh_tokens' = refresh_tokens
           /\ th' = th)]_authVars

C1_Witness ==
    /\ ev.op = "refresh"
    /\ ev.step = "lookup"
    /\ RowOf(ev.tok) # 0
    /\ Rotated(RowOf(ev.tok))
    /\ ev.status = 401

\* C2: one presented token never has two unrevoked successor tokens, also
\* when two refresh requests presenting it overlap.
C2_AtMostOneLiveSuccessor ==
    \A p \in RefreshIds :
        Cardinality({s \in RefreshIds : /\ refresh_tokens[s].parent = p
                                        /\ refresh_tokens[s].revoked_at = None}) <= 1

\* C3: in every committed state a row is marked revoked by a rotation
\* exactly if the successor row of that rotation is stored, and a rotation
\* whose commit fails changes no row.
RotationAllOrNothing ==
    \A p \in RefreshIds : \A s \in 1..(MaxRefresh + 1) :
        (s \in refresh_tokens[p].rotated_by)
            <=> (s \in RefreshIds /\ refresh_tokens[s].parent = p)

C3_RotationAtomic ==
    [][/\ RotationAllOrNothing'
       /\ (ev'.op = "refresh" /\ ev'.step = "commit" /\ ev'.status # 200)
            => refresh_tokens' = refresh_tokens]_authVars

C3_Witness ==
    /\ ev.op = "refresh"
    /\ ev.step = "commit"
    /\ ev.status = 500
    /\ refresh_tokens[ev.tok].revoked_at = None
    /\ \E p \in RefreshIds : refresh_tokens[p].rotated_by # {}

\* C4: a refresh request whose token is unknown, already revoked or expired
\* (expires_at <= now) is answered 401 and changes no refresh-token row.
C4_InvalidTokenRejected ==
    [][(/\ ev'.op = "refresh"
        /\ ev'.step = "lookup"
        /\ \/ RowOf(ev'.tok) = 0
           \/ refresh_tokens[RowOf(ev'.tok)].revoked_at # None
           \/ refresh_tokens[RowOf(ev'.tok)].expires_at <= now)
       => (/\ ev'.status = 401
           /\ refresh_tokens' = refresh_tokens
           /\ th' = th)]_authVars

C4_Witness ==
    /\ ev.op = "refresh"
    /\ ev.step = "lookup"
    /\ ev.status = 401
    /\ RowOf(ev.tok) # 0
    /\ refresh_tokens[RowOf(ev.tok)].revoked_at = None
    /\ refresh_tokens[RowOf(ev.tok)].expires_at <= now

\* C7: after logout was called with refresh token T in the cookie, T is
\* revoked (so every later refresh presenting T is rejected).
C7_LogoutRevokes ==
    (ev.op = "logout" /\ RowOf(ev.tok) # 0)
        => refresh_tokens[RowOf(ev.tok)].revoked_at # None

\* ------------------------------------------------------ reset-token claims
ResetIds == 1..Len(reset_tokens)

ResetValid(i) == reset_tokens[i].used_at = None /\ reset_tokens[i].expires_at > now

\* C5: in every reachable state at most one password-reset token of an
\* email is valid (unused and unexpired), also after overlapping
\* forgot-password requests.
C5_AtMostOneValidReset ==
    \A i, j \in ResetIds :
        (/\ reset_tokens[i].email = reset_tokens[j].email
         /\ ResetValid(i)
         /\ ResetValid(j)) => i = j

\* C6: a password-reset token is consumed by at most one successful reset
\* request, whether the requests follow each other or overlap.
C6_ResetTokenSingleUse == \A i \in ResetIds : reset_tokens[i].uses <= 1

\* C9: the answers of forgot-password to two syntactically valid emails,
\* one with an account and one without, are the same (status and body).
\* Stated on two requests answered one right after the other, mail and
\* storage working.
ForgotAnswered(e) ==
    /\ e.op = "forgot"
    /\ e.status \notin {0, 500}
    /\ Contains(e.email, "@")

C9_ForgotHidesAccounts ==
    [][(/\ ForgotAnswered(ev)
        /\ ForgotAnswered(ev')
        /\ (FirstUserByEmail(ev.email) = 0) # (FirstUserByEmail(ev'.email) = 0))
       => (ev'.status = ev.status /\ ev'.detail = ev.detail)]_authVars

\* ------------------------------------------------------------ signup claim
\* C8: a valid signup for an email without a user row creates exactly one
\* row and answers 200; a valid signup for an email (trimmed, lower-cased)
\* that has a row answers 409 and creates none; no two rows share an email.
C8_SignupOncePerEmail ==
    [][/\ (ev'.op = "signup" /\ ev'.status # 400 /\ UserIdsByEmail(ev'.email) # {})
            => (ev'.status = 409 /\ users' = users)
       /\ (ev'.op = "signup" /\ ev'.status # 400 /\ UserIdsByEmail(ev'.email) = {}
                /\ ev'.step = "done")
            => (/\ ev'.status = 200
                /\ Len(users') = Len(users) + 1
                /\ SubSeq(users', 1, Len(users)) = users
                /\ users'[Len(users')].email = ev'.email)
       /\ \A i, j \in 1..Len(users') : users'[i].email = users'[j].email => i = j]_authVars

C8_Witness ==
    /\ ev.op = "signup"
    /\ ev.status = 409
    /\ Cardinality(UserIdsByEmail(ev.email)) = 1
    /\ Len(users) = MaxUsers

\* ------------------------------------------------------- streaming claims
TerminalEvents == {"done", "error"}

Kinds(events) == [i \in 1..Len(events) |-> events[i].event]

\* meta first and only first, nothing after a terminal event
StreamShape(events) ==
    /\ events # <<>> => Kinds(events)[1] = "meta"
    /\ \A i \in 2..Len(events) : Kinds(events)[i] \in {"delta"} \cup TerminalEvents
    /\ \A i \in 1..(Len(events) - 1) : Kinds(events)[i] \notin TerminalEvents

\* C10: the events of every streamed turn and streamed edit are meta, then
\* delta events, then a terminal event: meta is the first event, a
\* generator that is still running has sent no terminal event, and a
\* generator that ran to its end has sent exactly one, done or error, as
\* its last event.  (A response the client dropped ends where it was.)
C10_StreamShape ==
    \A s \in Streams :
        /\ StreamShape(st[s].events)
        /\ st[s].pc \in {"start", "run", "drained", "dropped"}
            => \A i \in 1..Len(st[s].events) : Kinds(st[s].events)[i] \notin TerminalEvents
        /\ st[s].pc = "closed"
            => /\ Len(st[s].events) >= 2
               /\ Kinds(st[s].events)[Len(st[s].events)] \in TerminalEvents

C10_Witness ==
    \E s \in Streams :
        /\ st[s].pc = "closed"
        /\ st[s].kind = "edit"
        /\ Kinds(st[s].events) = <<"meta", "delta", "delta", "error">>
        /\ \E c \in ConversationIds : conversations[c].title # NewChat

\* the text the client received: the delta fragments in emission order
RECURSIVE DeltaText(_)
DeltaText(events) ==
    IF events = <<>> THEN <<>>
    ELSE DeltaText(SubSeq(events, 1, Len(events) - 1))
         \o (IF events[Len(events)].event = "delta" THEN events[Len(events)].data.delta ELSE <<>>)

\* the slices the chunk loop cuts a reply into
SlicesOf(reply) ==
    [k \in 1..((Len(reply) + SliceLen - 1) \div SliceLen) |-> Slice(reply, k - 1)]

\* the generator of stream s sends its done event in this step
SendsDone(s) ==
    /\ st[s].pc \in {"run", "drained"}
    /\ st'[s].pc = "closed"
    /\ st'[s].events[Len(st'[s].events)].event = "done"

\* C11: when a streamed turn sends done, the commit of that step has added
\* the turn's assistant message as the last row, and its content is the
\* concatenation, in emission order, of the delta fragments sent; cutting
\* a reply into 20-character slices and joining them gives the reply back.
C11_PersistedEqualsDeltas ==
    [][/\ \A s \in Streams :
            (SendsDone(s) /\ st[s].kind = "turn")
                => /\ Len(messages') = Len(messages) + 2
                   /\ messages'[Len(messages')].role = "assistant"
                   /\ messages'[Len(messages')].conversation_id = st[s].conv
                   /\ messages'[Len(messages')].content = DeltaText(st'[s].events)
       /\ \A reply \in StreamReplies :
            /\ DeltaText([k \in 1..Len(SlicesOf(reply)) |->
                            sse_event([delta |-> SlicesOf(reply)[k]], "delta")]) = reply
            /\ \A k \in 1..Len(SlicesOf(reply)) :
                    Len(SlicesOf(reply)[k]) \in 1..SliceLen]_vars

C11_Witness ==
    \E s \in Streams :
        /\ st[s].pc = "closed"
        /\ st[s].kind = "turn"
        /\ Kinds(st[s].events) = <<"meta", "delta", "delta", "delta", "done">>
        /\ messages # <<>>
        /\ messages[Len(messages)].role = "assistant"
        /\ messages[Len(messages)].content = DeltaText(st[s].events)
        /\ Len(messages[Len(messages)].content) > SliceLen

\* the model call of stream s raises in this step, after two deltas
FailsAfterTwoDeltas(s) ==
    /\ st[s].pc = "run"
    /\ st'[s].pc = "drained"
    /\ Kinds(st[s].events) = <<"meta", "delta", "delta">>

\* C12: when the generation of a streamed turn fails after two deltas, the
\* failing step sends no further delta, and the step that ends the stream
\* sends one error event and no done.
C12_FailureEndsWithError ==
    [][\A s \in Streams :
          st[s].kind = "turn"
              => /\ FailsAfterTwoDeltas(s) => st'[s].events = st[s].events
                 /\ (st[s].pc = "drained" /\ st'[s].pc = "closed")
                        => Kinds(st'[s].events) = <<"meta", "delta", "delta", "error">>]_vars

\* the texts a stream has sent after one or more chunks of the model
PartialTexts == {Join([i \in 1..k |-> <<"o", "k">>]) : k \in 1..MaxChunks}

\* a streamed turn on conversation c lost its client after sending text
DroppedWith(c, text) ==
    \E s \in Streams :
        /\ st[s].pc = "dropped"
        /\ st[s].kind = "turn"
        /\ st[s].conv = c
        /\ Join(st[s].parts) = text

\* conversation c holds a user message and an assistant message with text
StoredWith(c, text) ==
    /\ \E i \in MessageIds : /\ messages[i].conversation_id = c
                             /\ messages[i].role = "user"
    /\ \E i \in MessageIds : /\ messages[i].conversation_id = c
                             /\ messages[i].role = "assistant"
                             /\ messages[i].content = text

\* C13: a streamed turn whose client disconnects after some deltas leads to
\* a state in which the user message and the partial assistant text are
\* stored in its conversation.
C13_DisconnectCommits ==
    \A c \in 1..MaxConversations, text \in PartialTexts :
        DroppedWith(c, text) ~> StoredWith(c, text)

\* the turn of slot s ends in this step (response or last event sent)
TurnEnds(s) ==
    /\ st[s].kind \in {"turn", "call"}
    /\ st[s].pc \in {"run", "drained", "call"}
    /\ st'[s].pc = "closed"

\* the user message of the turn in slot s is stored after the step
UserMessageStored(s) ==
    \E i \in 1..Len(messages') :
        /\ ~messages'[i].removed
        /\ messages'[i].conversation_id = st[s].conv
        /\ messages'[i].role = "user"
        /\ messages'[i].content = st[s].message

\* C14: a durable turn that has added its user message to the conversation
\* leaves that message stored when it ends, whether it ends with a reply,
\* with a done event, with a 500 answer or with an error event.
C14_UserMessageNeverLost ==
    [][\A s \in Streams : TurnEnds(s) => UserMessageStored(s)]_vars

\* C15: every commit of a turn that stores a user message stores, in the
\* same commit and right after it, the assistant message of that turn in
\* the same conversation; so every stored user message of a turn is
\* followed by its assistant message.
C15_UserWithAssistant ==
    [][\A i \in 1..Len(messages') :
          messages'[i].role = "user"
              => /\ i + 1 <= Len(messages')
                 /\ messages'[i + 1].role = "assistant"
                 /\ messages'[i + 1].conversation_id = messages'[i].conversation_id
                 /\ (i > Len(messages)) = (i + 1 > Len(messages))]_vars

C15_Witness ==
    /\ Len(messages) = 4
    /\ ev.op = "chat" /\ ev.status = 200
    /\ messages[1].role = "user" /\ messages[2].role = "assistant"
    /\ messages[2].content = Join(<< <<"o", "k">>, ApologyText >>)
    /\ messages[3].role = "user" /\ messages[4].role = "assistant"
    /\ messages[4].content = ev.out.reply

\* POST /api/chat answers 200 in this step after its model call failed
RepliesAfterModelFailure(s) ==
    /\ st[s].pc = "call"
    /\ st'[s].pc = "closed"
    /\ ev'.status = 200
    /\ ev'.detail = "model call failed"

\* C16: when the model call of a non-streamed turn fails, the response
\* carries the fixed apology text as reply, and the commit of the turn has
\* stored the user message and an assistant message holding the apology.
C16_ApologyStored ==
    [][\A s \in Streams :
          RepliesAfterModelFailure(s)
              => /\ ev'.out.reply = ApologyText
                 /\ messages' = messages \o
                        <<NewMessage(st[s].conv, "user", st[s].message, st[s].at),
                          NewMessage(st[s].conv, "assistant", ApologyText, st[s].at)>>]_vars

C16_Witness ==
    /\ ev.op = "chat" /\ ev.status = 200 /\ ev.detail = "model call failed"
    /\ ev.out.reply = ApologyText
    /\ Len(messages) = 2
    /\ messages[1].role = "user" /\ messages[1].content = MsgHelp
    /\ messages[2].role = "assistant" /\ messages[2].content = ApologyText

\* C17: no two conversations that are not deleted and have the same owner
\* email and the same bot have the same stored title.
C17_TitlesUnique ==
    \A i, j \in ConversationIds :
        (/\ i # j
         /\ ~conversations[i].is_deleted /\ ~conversations[j].is_deleted
         /\ conversations[i].email = conversations[j].email
         /\ conversations[i].bot_id = conversations[j].bot_id)
            => conversations[i].title # conversations[j].title

\* a rename request stored a title in this step
Renames == ev'.op = "history_rename" /\ ev'.status = 200 /\ conversations' # conversations

\* the titles unique_title read in the step, and the base it was given
RenameExisting == ExistingTitles(ev'.email, "training", ev'.out.chat_id)

\* C18: unique_title returns the base unchanged when it is not among the
\* existing titles; otherwise it returns the base followed by " (n)" for
\* the lowest n >= 2 for which that string is not an existing title; the
\* result is never an existing title.
C18_UniqueTitle ==
    [][Renames =>
        LET base     == ev'.tok
            result   == ev'.out.full_title
            suffixed(n) == Numbered(base, IntToStr(n))
        IN  /\ result \notin RenameExisting
            /\ base \notin RenameExisting => result = base
            /\ base \in RenameExisting =>
                  \E n \in 2..(MaxTitled + 2) :
                      /\ result = suffixed(n)
                      /\ \A m \in 2..(n - 1) : suffixed(m) \in RenameExisting]_vars

\* the turn of slot s ends in this step with a done event or a 200 answer
TurnSucceeds(s) ==
    /\ TurnEnds(s)
    /\ IF st[s].kind = "turn"
       THEN st'[s].events[Len(st'[s].events)].event = "done"
       ELSE ev'.status = 200

\* the title the done event or the response of that step reports
ReportedTitle(s) ==
    IF st[s].kind = "turn"
    THEN st'[s].events[Len(st'[s].events)].data.title
    ELSE ev'.out.title

\* the turn in slot s is the first of its conversation, its message is
\* meaningful, and the owner's only other conversation of the bot is
\* titled by the same message
SecondOfSameMessage(s) ==
    /\ st[s].title = NewChat
    /\ make_title(st[s].message) # NewChat
    /\ ExistingTitles(st[s].email, st[s].bot_id, st[s].conv) = {make_title(st[s].message)}

\* C19: when a second conversation of the same bot gets the same meaningful
\* first message as the first, the title its turn reports is the first
\* conversation's title followed by " (2)".
C19_SecondTitleReported ==
    [][\A s \in Streams :
          (TurnSucceeds(s) /\ SecondOfSameMessage(s))
              => ReportedTitle(s) = Numbered(make_title(st[s].message), <<"2">>)]_vars

\* the stored title of that second conversation carries the suffix
C19_StoredTitleSuffixed ==
    [][\A s \in Streams :
          (TurnSucceeds(s) /\ SecondOfSameMessage(s))
              => conversations'[st[s].conv].title
                     = Numbered(make_title(st[s].message), <<"2">>)]_vars

\* the normalised text has fewer than 12 characters, fewer than 2 words or
\* fewer than 6 letters
TooShortForTitle(text) ==
    LET t == NormWs(text)
    IN  \/ Len(t) < 12
        \/ Len(SplitWs(t, <<>>)) < 2
        \/ Cardinality({i \in 1..Len(t) : IsAlpha(t[i])}) < 6

\* C20: a turn that found its conversation titled "New chat" and whose
\* message is too short for a title does not change the stored title: a
\* conversation without earlier messages stays titled "New chat", and the
\* turn reports "New chat" when it succeeds.
C20_ShortMessageKeepsNewChat ==
    [][\A s \in Streams :
          (TurnEnds(s) /\ st[s].title = NewChat /\ TooShortForTitle(st[s].message))
              => /\ conversations'[st[s].conv].title = conversations[st[s].conv].title
                 /\ (\A i \in MessageIds : messages[i].conversation_id # st[s].conv)
                        => conversations'[st[s].conv].title = NewChat
                 /\ TurnSucceeds(s) => ReportedTitle(s) = NewChat]_vars

C20_Witness ==
    /\ ev.op = "chat" /\ ev.status = 200 /\ ev.out.title = NewChat
    /\ Len(conversations) = 2
    /\ conversations[1].title = <<"N", "e", "e", "d", " ", "h", "e", "l", "p", " ", "n", "o", "w">>
    /\ conversations[2].title = NewChat
    /\ \E i \in MessageIds : /\ messages[i].conversation_id = 2
                             /\ messages[i].role = "user"
                             /\ messages[i].content = MsgFewLetters

\* a delete request of the owner for a conversation already soft-deleted
\* is answered in this step
DeletesAgain ==
    /\ ev'.op = "history_delete"
    /\ ev'.tok.chat_id \in ConversationIds
    /\ conversations[ev'.tok.chat_id].is_deleted
    /\ conversations[ev'.tok.chat_id].email = ev'.email
    /\ conversations[ev'.tok.chat_id].bot_id = ev'.tok.bot_id

\* C21: deleting a conversation the same caller has already soft-deleted
\* answers success again and leaves the stored state as it was after the
\* first delete.
C21_DeleteIdempotent ==
    [][DeletesAgain => (ev'.status = 200 /\ conversations' = conversations)]_vars

\* the stored state is the same after the repeated delete
C21_RepeatedDeleteStoresNothing ==
    [][DeletesAgain => conversations' = conversations]_vars

\* a turn or an edit that started before now is still running on c
InFlightOn(c) == \E s \in Streams : st[s].conv = c /\ st[s].pc \in {"call", "start", "run", "drained"}

\* the rows of conversation c and of its messages are the same after the step
RowsKept(c) ==
    /\ conversations'[c] = conversations[c]
    /\ \A i \in 1..Len(messages') :
          (i > Len(messages) => messages'[i].conversation_id # c)
          /\ (i <= Len(messages) /\ messages[i].conversation_id = c => messages'[i] = messages[i])

\* C22: for a conversation c that is soft-deleted: its rows stay as they
\* are under every operation started afterwards; a listing does not show
\* it; its detail has no messages; rename, edit and streamed edit on it
\* answer 404 and store nothing; a turn carrying its chat id creates a new
\* conversation and works on that one.
C22_DeletedNotResolved ==
    [][\A c \in ConversationIds :
          conversations[c].is_deleted =>
            LET e == conversations[c].email
                b == conversations[c].bot_id
            IN  /\ ~InFlightOn(c) => RowsKept(c)
                /\ history_list(e, b)
                      => \A k \in 1..Len(ev'.out.items) : ev'.out.items[k].chat_id # c
                /\ history_get(e, b, c, <<>>) => ev'.out.messages = <<>>
                /\ history_rename(e, b, c, TitleA) => ev'.status = 404
                /\ \A i \in 1..Len(messages), regenerate \in BOOLEAN :
                      message_edit(e, b, c, i, MsgHi, regenerate, <<"o", "k">>, FALSE, FALSE)
                          => ev'.status = 404
                /\ \A s \in Streams, i \in 1..Len(messages) :
                      message_edit_stream(s, e, b, c, i, MsgHi) => (ev'.status = 404 /\ st' = st)
                /\ \A s \in Streams :
                      (chat_api(s, e, b, MsgHi, JsonInt(c), FALSE) \/ chat_api_stream(s, e, b, MsgHi, JsonInt(c), FALSE))
                          => /\ st'[s].conv = Len(conversations) + 1
                             /\ Len(conversations') = Len(conversations) + 1
                             /\ ~conversations'[st'[s].conv].is_deleted]_vars

\* a turn carrying the chat id of deleted conversation 1 was stored in the
\* new conversation 2, and conversation 1 kept its two messages
C22_Witness ==
    /\ Len(conversations) = 2
    /\ conversations[1].is_deleted /\ ~conversations[2].is_deleted
    /\ Len(messages) = 4
    /\ messages[1].conversation_id = 1 /\ messages[2].conversation_id = 1
    /\ messages[3].conversation_id = 2 /\ messages[4].conversation_id = 2
    /\ ev.op = "history_list" /\ ev.status = 200
    /\ Len(ev.out.items) = 1 /\ ev.out.items[1].chat_id = 2

\* a chat id that is no integer the conversion accepts
Malformed(c) == c # JsonNull /\ c.type # "int" /\ payload_id(c).raises # ""

\* chat id c names a conversation of another user or of another bot
Foreign(c, e, b) ==
    /\ c.type = "int"
    /\ c.num \in ConversationIds
    /\ conversations[c.num].email # e \/ conversations[c.num].bot_id # b

\* C23 (the rows): every message row a step adds belongs to a conversation
\* whose email and bot id are those of the request that started the turn,
\* and the conversation a running turn holds is one of its caller and bot.
C23_RowsGoToCallersConversation ==
    [][/\ \A i \in (Len(messages) + 1)..Len(messages') :
             \E s \in Streams :
                /\ st[s].pc \notin {"idle", "closed", "dropped"}
                /\ messages'[i].conversation_id = st[s].conv
                /\ conversations'[st[s].conv].email = st[s].email
                /\ conversations'[st[s].conv].bot_id = st[s].bot_id
       /\ \A s \in Streams, e \in OwnerEmails, b \in OwnerBots, c \in OwnerChatIds :
             /\ (chat_api(s, e, b, MsgHi, c, FALSE) \/ chat_api_stream(s, e, b, MsgHi, c, FALSE))
             /\ ev'.status < 400
             => /\ st'[s].email = e
                /\ st'[s].bot_id = b
                /\ conversations'[st'[s].conv].email = e
                /\ conversations'[st'[s].conv].bot_id = b]_vars

\* C23: a turn whose chat id is malformed or names a conversation of
\* another user or of another bot is not refused: it creates a new
\* conversation of the caller and the bot, and uses it.
C23_ForeignChatIdStartsNew ==
    [][\A s \in Streams, e \in OwnerEmails, b \in OwnerBots, c \in OwnerChatIds :
          /\ (chat_api(s, e, b, MsgHi, c, FALSE) \/ chat_api_stream(s, e, b, MsgHi, c, FALSE))
          /\ Malformed(c) \/ Foreign(c, e, b)
          => /\ ev'.status < 400
             /\ Len(conversations') = Len(conversations) + 1
             /\ st'[s].conv = Len(conversations')
             /\ conversations'[Len(conversations')].email = e
             /\ conversations'[Len(conversations')].bot_id = b]_vars

\* a turn named a chat of another user and runs on a new conversation
C23_Witness ==
    \E s \in Streams :
        /\ st[s].pc \notin {"idle", "closed", "dropped"}
        /\ st[s].conv = 2
        /\ conversations[1].email # conversations[2].email
        /\ \E i \in 1..Len(messages) : messages[i].conversation_id = 2

\* the chat ids of a listing, in the order of its items
ListedChats(items) == [k \in 1..Len(items) |-> items[k].chat_id]

\* the conversations a listing of (e, b) can show
Listable(e, b) ==
    {i \in ConversationIds : /\ conversations[i].email = e
                             /\ conversations[i].bot_id = b
                             /\ ~conversations[i].is_deleted}

\* C24: a listing by an authenticated caller answers with conversations of
\* the caller and the bot that are not deleted, each once, at most 50 of
\* them and all of them when there are fewer, newest updated_at first, and
\* none left out that is newer than one shown; for the ephemeral bot the
\* list is empty.  (The listing stores nothing, so the response is compared
\* with the rows as they are.)
C24_Listing ==
    (ev.op = "history_list" /\ ev.email # <<>>) =>
        LET items == ev.out.items
            chats == ListedChats(items)
            shown == {chats[k] : k \in 1..Len(chats)}
            own   == Listable(ev.email, ev.tok)
        IN  /\ ev.status = 200
            /\ is_ephemeral_bot(ev.tok) => items = <<>>
            /\ ~is_ephemeral_bot(ev.tok) =>
                  /\ shown \subseteq own
                  /\ Cardinality(shown) = Len(items)
                  /\ Len(items) <= 50
                  /\ Len(items) < 50 => shown = own
                  /\ \A k \in 1..Len(items) :
                        items[k].updated_at = conversations[chats[k]].updated_at
                  /\ \A k, l \in 1..Len(items) :
                        k < l => items[k].updated_at >= items[l].updated_at
                  /\ \A i \in own \ shown, k \in 1..Len(items) :
                        conversations[i].updated_at <= items[k].updated_at

\* a listing answered with 50 items while the caller has more: the first
\* conversation, renamed last, is shown and the second, younger, is not
C24_Witness ==
    /\ ev.op = "history_list"
    /\ ev.status = 200
    /\ Len(ev.out.items) = 50
    /\ {1, 2} \subseteq Listable(OwnerA, "training")
    /\ \E k \in 1..Len(ev.out.items) : ev.out.items[k].chat_id = 1
    /\ \A k \in 1..Len(ev.out.items) : ev.out.items[k].chat_id # 2

\* C25: a turn of an authenticated caller for the bot "widget", plain or
\* streamed, is accepted and served without a conversation: it is answered
\* 200, the turn holds no conversation id, and no row of conversations or
\* messages is written.
C25_WidgetTurnServed ==
    [][\A s \in Streams :
          (\/ chat_api(s, OwnerA, "widget", MsgHi, JsonNull, FALSE)
           \/ chat_api_stream(s, OwnerA, "widget", MsgHi, JsonNull, FALSE))
          => /\ ev'.status = 200
             /\ st'[s].kind = "ephemeral"
             /\ st'[s].conv = 0
             /\ conversations' = conversations
             /\ messages' = messages]_vars

\* C26: an access to a key whose entry was last touched more than 3600 s
\* ago puts a new entry with a new, empty session under the key and
\* returns that session; an access within 3600 s returns the session of
\* the entry there is, with its history (cut to its last 60 messages if
\* longer), and sets the entry's updated_at to now.
C26_TtlReplacesOrKeeps ==
    [][\A e \in CacheEmails, m \in CacheModes :
          (/\ EphemeralKey(e, "widget") \in DOMAIN EPHEMERAL_SESSIONS
           /\ ephemeral_turn(1, e, "widget", m, MsgHi)) =>
              LET key     == EphemeralKey(e, "widget")
                  old     == EPHEMERAL_SESSIONS[key]
                  new     == EPHEMERAL_SESSIONS'[key]
                  seconds == (now - old.updated_at) * 3600
              IN  /\ seconds > 3600 =>
                        /\ new.session \notin 1..Len(session_dicts)
                        /\ session_dicts'[new.session].history = <<>>
                        /\ session_dicts'[old.session] = session_dicts[old.session]
                        /\ et'[1].session = new.session
                        /\ new.updated_at = now
                  /\ seconds <= 3600 =>
                        /\ new.session = old.session
                        /\ et'[1].session = old.session
                        /\ session_dicts'[old.session].history =
                              LastN(session_dicts[old.session].history, 60)
                        /\ Len(session_dicts') = Len(session_dicts)
                        /\ new.updated_at = now]_vars

\* an access has replaced an entry whose session had messages, and the
\* session it returned has none
C26_Witness ==
    /\ ev.op = "ephemeral"
    /\ ev.step = "session"
    /\ session_dicts[ev.out].history = <<>>
    /\ \E r \in 1..Len(session_dicts) :
          /\ r < ev.out
          /\ session_dicts[r].user_email = ev.email
          /\ session_dicts[r].history # <<>>

\* C27: when a turn on an ephemeral session has completed, the history of
\* the session holds at most 60 messages.
C27_HistoryCapped ==
    (ev.op = "ephemeral" /\ ev.step = "done") =>
        Len(session_dicts[ev.out].history) <= 60

\* C27 (the trimming): an access that shortens a history leaves its last
\* 60 messages, in their order.
C27_OldestDropped ==
    [][\A r \in 1..Len(session_dicts) :
          Len(session_dicts'[r].history) < Len(session_dicts[r].history) =>
              LET old == session_dicts[r].history
              IN  session_dicts'[r].history = SubSeq(old, Len(old) - 59, Len(old))]_vars

\* a turn on an ephemeral session is running
InTurn(t) == et[t].pc # "idle"

\* C28: turns that took the session of one key within 3600 s of each other
\* hold the same session, and a running turn holds the session of the
\* entry the cache has for its key unless that entry was touched more than
\* 3600 s after the turn took its session: get-or-create never leaves two
\* sessions for turns that run together.
C28_OneSessionPerKey ==
    /\ \A t \in Turns :
          InTurn(t) =>
              /\ et[t].key \in DOMAIN EPHEMERAL_SESSIONS
              /\ (EPHEMERAL_SESSIONS[et[t].key].updated_at - et[t].at) * 3600 <= 3600
                    => EPHEMERAL_SESSIONS[et[t].key].session = et[t].session
    /\ \A t, u \in Turns :
          (/\ InTurn(t) /\ InTurn(u)
           /\ et[t].key = et[u].key
           /\ et[t].at <= et[u].at
           /\ (et[u].at - et[t].at) * 3600 <= 3600)
          => et[t].session = et[u].session

\* two turns for one key run together on the one session of its entry,
\* which had no entry before, and both have written their message to it
C28_Witness ==
    /\ InTurn(1) /\ InTurn(2)
    /\ et[1].key = et[2].key
    /\ et[1].session = et[2].session
    /\ Len(session_dicts) = 1
    /\ EPHEMERAL_SESSIONS[et[1].key].session = 1
    /\ Len(session_dicts[1].history) = 2

\* C29: an edit, plain or streamed, by the owner of a conversation that
\* names one of its assistant messages is answered 400 and changes no
\* message, no conversation and no streaming response.
C29_AssistantNotEditable ==
    [][\A c \in ConversationIds, i \in MessageIds :
          (/\ messages[i].role = "assistant"
           /\ messages[i].conversation_id = c
           /\ ~conversations[c].is_deleted) =>
              LET e == conversations[c].email
                  b == conversations[c].bot_id
              IN  /\ \A content \in EditContents, q \in EditOutcomes :
                        (/\ ev'.op = "edit"
                         /\ message_edit(e, b, c, i, content, q[1], <<"o", "k">>, q[2], q[3]))
                            => /\ ev'.status = 400
                               /\ messages' = messages
                               /\ conversations' = conversations
                  /\ \A s \in Streams, content \in EditContents :
                        (/\ ev'.op = "edit_stream"
                         /\ message_edit_stream(s, e, b, c, i, content))
                            => /\ ev'.status = 400
                               /\ messages' = messages
                               /\ conversations' = conversations
                               /\ st' = st]_vars

\* an edit of an assistant message has been refused
C29_Witness ==
    /\ ev.op = "edit_stream"
    /\ ev.status = 400
    /\ ev.detail = "only user messages can be edited"

\* the messages of conversation c in a table of messages
MessagesOf(table, c) ==
    {k \in 1..Len(table) : ~table[k].removed /\ table[k].conversation_id = c}

C31_UnresolvedIs404 ==
    [][\A c \in ChatIds :
          FindConversation(c, OwnerA, "training") = 0 =>
              /\ (ev'.op = "history_get" /\ history_get(OwnerA, "training", c, <<>>))
                    => ev'.status = 404
              /\ (ev'.op = "history_rename" /\ history_rename(OwnerA, "training", c, TitleA))
                    => ev'.status = 404
              /\ (ev'.op = "history_delete" /\ history_delete(OwnerA, "training", c))
                    => ev'.status = 404
              /\ \A i \in 1..Len(messages), regenerate \in BOOLEAN :
                    (/\ ev'.op = "edit"
                     /\ message_edit(OwnerA, "training", c, i, MsgHi, regenerate,
                                     <<"o", "k">>, FALSE, FALSE))
                        => ev'.status = 404]_vars

\* the messages and conversations after an edit of message i of
\* conversation c that touches nothing but the edited message and the
\* conversation's updated_at
EditedOnly(c, i) ==
    /\ Len(messages') = Len(messages)
    /\ \A k \in 1..Len(messages) :
          IF k = i
          THEN /\ messages'[k].is_edited
               /\ messages'[k] = [messages[k] EXCEPT !.content = messages'[k].content,
                                                     !.is_edited = TRUE,
                                                     !.edited_at = messages'[k].edited_at]
          ELSE messages'[k] = messages[k]
    /\ conversations' = [conversations EXCEPT ![c].updated_at = conversations'[c].updated_at]

\* C32: a committed edit without regenerate removes no message and adds
\* none, on the plain endpoint and on the streamed one (whose request
\* carries the same payload): only the edited message and the
\* conversation's updated_at change.
C32_EditWithoutRegenerate ==
    [][/\ \A c \in ConversationIds, i \in MessageIds :
             (/\ ev'.op = "edit"
              /\ ev'.status = 200
              /\ message_edit(OwnerA, "training", c, i, MsgHelp, FALSE, <<"o", "k">>,
                              FALSE, FALSE))
                 => EditedOnly(c, i)
       /\ \A s \in Streams :
             (/\ st[s].kind = "edit"
              /\ st[s].pc \in {"run", "drained"}
              /\ stream_finish(s, FALSE)
              /\ messages' # messages)
                 => EditedOnly(st[s].conv, st[s].msg)]_vars

\* the last 60 rows of a conversation in the order of their creation, as
\* role and content
RecentHistory(conv) ==
    LET ids   == {i \in MessageIds : messages[i].conversation_id = conv}
        order == LastN(CreatedAsc(ids, FALSE), HistoryLimit)
    IN  [k \in 1..Len(order) |->
            [role |-> messages[order[k]].role, content |-> messages[order[k]].content]]

\* C33: for a conversation that holds more than 60 messages the history
\* loaded for a new turn is its 60 most recent messages, in the order
\* they were created.
C33_MostRecentSixty ==
    (/\ ev.op = "chat"
     /\ ev.step = "history"
     /\ Cardinality(MessagesOf(messages, ev.out.chat_id)) > HistoryLimit)
        => ev.out.history = RecentHistory(ev.out.chat_id)

\* C34: the messages of a history detail come ordered by creation time
\* and then id, and so does the history loaded for a turn: the user
\* message of a turn stands before the reply of the same turn, which has
\* the same created_at.
C34_OrderedByTimeThenId ==
    /\ (ev.op = "history_get" /\ ev.status = 200) =>
          \A k, l \in DOMAIN ev.out.messages :
              k < l =>
                 LET a == ev.out.messages[k].id
                     b == ev.out.messages[l].id
                 IN  \/ messages[a].created_at < messages[b].created_at
                     \/ messages[a].created_at = messages[b].created_at /\ a < b
    /\ (ev.op = "chat" /\ ev.step = "history") =>
          LET ids   == MessagesOf(messages, ev.out.chat_id)
              order == FirstN(CreatedAsc(ids, FALSE), HistoryLimit)
          IN  ev.out.history =
                 [k \in 1..Len(order) |->
                     [role |-> messages[order[k]].role, content |-> messages[order[k]].content]]

\* C35: a reset-password request that has stored the user's new password
\* ends with the reset token it presented marked used: the password and
\* the token change together or not at all.
C35_PasswordAndTokenTogether ==
    [][\A t \in Threads :
          (th[t].pc = "reset_commit_token" /\ th'[t] = Idle)
              => reset_tokens'[th[t].rec].used_at # None]_vars

\* a turn on conversation c has not ended yet
TurnInFlight(c) ==
    \E s \in Streams : st[s].conv = c /\ st[s].pc \in {"start", "run", "drained", "call"}

\* C36: no conversation that a turn has created is left without messages
\* once the turn has ended, however it ended (reply, done event, 500
\* answer, error event, client gone).
C36_NoEmptyConversation ==
    \A c \in ConversationIds : ~TurnInFlight(c) => MessagesOf(messages, c) # {}

\* C37: no committed operation lowers the updated_at of a conversation,
\* also when a streamed turn ends after an operation that started later.
C37_UpdatedAtMonotone ==
    [][\A c \in ConversationIds :
          conversations'[c].updated_at >= conversations[c].updated_at]_vars

\* C38: a signup that is answered with an error has stored no user row,
\* whichever step of the request failed.
C38_FailedSignupStoresNothing ==
    [][(ev'.op = "signup" /\ ev'.status >= 400) => users' = users]_vars

\* C39: a turn that ends, streamed or not, leaves the title of every
\* conversation whose stored title is not "New chat" as it is.
C39_TitleSetOnce ==
    [][\A s \in Streams :
          TurnEnds(s) =>
              \A c \in ConversationIds :
                  conversations[c].title # NewChat
                      => conversations'[c].title = conversations[c].title]_vars

\* a reset token of the user has been consumed
PasswordReset(uid) ==
    \E i \in 1..Len(reset_tokens) :
        reset_tokens[i].user_id = uid /\ reset_tokens[i].used_at # None

\* C40: the steps of a reset-password request that stores the new
\* password change no refresh-token row; a refresh token of a user whose
\* password was reset, neither revoked nor expired, is accepted when it
\* is presented, and its rotation stores the successor.
C40_ResetKeepsRefreshTokens ==
    [][/\ \A t \in Threads, fault \in BOOLEAN :
             (/\ ev'.op = "reset"
              /\ reset_commit_user(t, fault) \/ reset_commit_token(t, fault))
                 => refresh_tokens' = refresh_tokens
       /\ (/\ ev'.op = "refresh"
           /\ ev'.step = "lookup"
           /\ ev' # ev
           /\ RowOf(ev'.tok) # 0
           /\ PasswordReset(refresh_tokens[RowOf(ev'.tok)].user_id)
           /\ refresh_tokens[RowOf(ev'.tok)].revoked_at = None
           /\ refresh_tokens[RowOf(ev'.tok)].expires_at > now)
              => /\ ev'.status = 0
                 /\ \E t \in Threads :
                       th'[t].pc = "refresh_rotate" /\ th'[t].rec = RowOf(ev'.tok)
       /\ \A t \in Threads :
             (/\ ev'.op = "refresh"
              /\ ev'.step = "commit"
              /\ refresh_rotate(t)
              /\ PasswordReset(refresh_tokens[th[t].rec].user_id))
                 => /\ ev'.status = 200
                    /\ refresh_tokens'[Len(refresh_tokens')].parent = th[t].rec
                    /\ refresh_tokens'[Len(refresh_tokens')].revoked_at = None]_vars

\* a token issued by signup was rotated an hour after the password of its
\* user was reset
C40_Witness ==
    /\ ev.op = "refresh"
    /\ ev.step = "commit"
    /\ ev.status = 200
    /\ \E p \in RefreshIds, i \in 1..Len(reset_tokens) :
          /\ refresh_tokens[p].parent = 0
          /\ Rotated(p)
          /\ reset_tokens[i].user_id = refresh_tokens[p].user_id
          /\ reset_tokens[i].used_at # None
          /\ reset_tokens[i].used_at < refresh_tokens[p].revoked_at
          /\ users[refresh_tokens[p].user_id].password_hash = hash_password(PwOther)

====
